---- MODULE Spec2Model ----
(***************************************************************************)
(* Import & conversion pipeline of Bridge Burner v2.                       *)
(*                                                                         *)
(*   backend/routers/imports.py     import_files, import_files_v2,         *)
(*                                  convert_single, run_batch_conversion,  *)
(*                                  run_gopro_conversion, get_job_status   *)
(*   backend/services/conversion.py PRESETS, estimate_conversion_time,     *)
(*                                  is_gopro_file, convert_video           *)
(*   backend/config.py              extension sets, PROJECT_SUBDIRS        *)
(*                                                                         *)
(*   backend/routers/projects.py    cull_file, keep_file, delete_culled    *)
(*   backend/services/files.py      get_file_type                          *)
(*                                                                         *)
(* The specifications below share the variables and the definitions.       *)
(*   Spec        the job registry (active_jobs), the background tasks that *)
(*               FastAPI runs in worker threads after a response, and the  *)
(*               transcoder child processes.  Request handlers are         *)
(*               `async def` without any await, so each is one atomic      *)
(*               step; a background task is interleaved with the handlers  *)
(*               and with the other tasks at every statement that touches  *)
(*               a job record.                                             *)
(*   SpecImport  the project directory tree, the metadata file and the     *)
(*               file walks of /import-v2 and /import, over source trees   *)
(*               that exist and source paths that do not.                  *)
(*   SpecDelete  Spec restricted to GoPro jobs run with delete_originals.  *)
(*   SpecRace    /import-v2 calls, with and without a prefix, interleaved  *)
(*               with the GoPro jobs they queue and the output files the   *)
(*               transcoders write into Video.                             *)
(*   SpecPipe    Spec for /convert with transcoders that write to their    *)
(*               stdout and stderr pipes (FairSpecPipe: scheduled fairly); *)
(*               in the other specifications a child writes nothing.       *)
(*   SpecServices, SpecScan, SpecCull  the stateless services, the scan    *)
(*               and preview endpoints and the culling endpoints; the      *)
(*               arguments and the answer of the last call are kept in     *)
(*               last_call.                                                *)
(*                                                                         *)
(* File names are kept structured: a name is [stem, ext], the stem is the  *)
(* sequence of its '_'-separated tokens and a token is a sequence of       *)
(* characters (a run of letters is written as one chunk, digits one per    *)
(* element), so that formatting a counter ("%04d"), parsing it back        *)
(* (rsplit / isdigit / int) and splitext are computed, not assumed.        *)
(* Progress values are exact rationals <<numerator, denominator>>.         *)
(***************************************************************************)
EXTENDS Integers, Sequences, FiniteSets, TLC

\* ---------------------------------------------------------------- bounds
MaxJobs == 2          \* background tasks accepted in one behaviour
MaxClock == 1         \* the wall clock runs over seconds 0..MaxClock
MaxFiles == 3         \* files a project holds at most in SpecImport
MaxDuration == 8      \* probed durations run over 0..MaxDuration seconds, and 60
MaxScan == 3          \* files of a tree given to /scan
MaxPreview == 4       \* files of a tree given to /date-previews
PipeCapacity == 1     \* chunks of output a pipe holds before a write blocks

\* ------------------------------------------------------ program constants
ProgressCap == 95
DefaultEstimate == 60
FinalProgress == 100
CounterWidth == 4

None == "None"

\* ------------------------------------------------------------- rationals
RECURSIVE GCD(_, _)
GCD(a, b) == IF b = 0 THEN a ELSE GCD(b, a % b)

\* the rational n/d (d > 0) in lowest terms
R(n, d) == LET g == GCD(n, d) IN IF g = 0 THEN <<0, 1>> ELSE <<n \div g, d \div g>>
RLeq(a, b) == a[1] * b[2] <= b[1] * a[2]
RLt(a, b) == a[1] * b[2] < b[1] * a[2]
RMin(a, b) == IF RLeq(a, b) THEN a ELSE b

\* ------------------------------------------------------------ config.py
PROJECT_SUBDIRS == <<"RAW", "JPEG", "Video", "Other">>
IMAGE_EXTENSIONS == {".jpg", ".jpeg", ".png", ".gif", ".bmp", ".tiff", ".tif", ".webp"}
RAW_EXTENSIONS == {".arw", ".cr2", ".cr3", ".nef", ".orf", ".raf", ".rw2", ".dng", ".raw"}
VIDEO_EXTENSIONS == {".mp4", ".mov", ".avi", ".mkv", ".mts", ".m2ts"}

Subdirs == {PROJECT_SUBDIRS[k] : k \in 1..Len(PROJECT_SUBDIRS)}

\* ------------------------------------------------------- strings, names
\* str.lower() and str.upper() on the extensions and chunks the inputs use
LowerTable ==
    [s \in {".CR2", ".NEF", ".JPG", ".MP4", ".MOV", ".TXT", ".PNG", "GH", "GOPR", "GP", "GX", "DNXHD"} |->
        CASE s = ".CR2" -> ".cr2" [] s = ".NEF" -> ".nef" [] s = ".JPG" -> ".jpg"
          [] s = ".MP4" -> ".mp4" [] s = ".MOV" -> ".mov" [] s = ".TXT" -> ".txt"
          [] s = ".PNG" -> ".png"
          [] s = "GH" -> "gh" [] s = "GOPR" -> "gopr" [] s = "GP" -> "gp"
          [] s = "GX" -> "gx" [] s = "DNXHD" -> "dnxhd"]

Lower(s) == IF s \in DOMAIN LowerTable THEN LowerTable[s] ELSE s
Upper(s) ==
    IF \E u \in DOMAIN LowerTable : LowerTable[u] = s
    THEN CHOOSE u \in DOMAIN LowerTable : LowerTable[u] = s
    ELSE s

DigitChars == <<"0", "1", "2", "3", "4", "5", "6", "7", "8", "9">>
DigitSet == {DigitChars[k] : k \in 1..10}
DigitValue(c) == (CHOOSE k \in 1..10 : DigitChars[k] = c) - 1

\* str(n) for n >= 0, one character per element
RECURSIVE StrOfInt(_)
StrOfInt(n) ==
    IF n < 10 THEN <<DigitChars[n + 1]>>
    ELSE StrOfInt(n \div 10) \o <<DigitChars[(n % 10) + 1]>>

RECURSIVE ZeroPad(_, _)
ZeroPad(s, width) == IF Len(s) >= width THEN s ELSE ZeroPad(<<"0">> \o s, width)

\* f"{counter:04d}"
Format04d(n) == ZeroPad(StrOfInt(n), CounterWidth)

\* str.isdigit() on one token
IsDigit(tok) == tok # <<>> /\ \A k \in 1..Len(tok) : tok[k] \in DigitSet

\* int(s) for a token of digits
RECURSIVE IntOfStr(_)
IntOfStr(tok) ==
    IF tok = <<>> THEN 0
    ELSE IntOfStr(SubSeq(tok, 1, Len(tok) - 1)) * 10 + DigitValue(tok[Len(tok)])

Name(stem, ext) == [stem |-> stem, ext |-> ext]

\* None where a file name is expected
NoFile == Name(<<>>, None)

\* filename.startswith(".")
IsHidden(name) ==
    /\ name.stem # <<>>
    /\ name.stem[1] # <<>>
    /\ name.stem[1][1] = "."

\* '_dnxhd' in stem.lower(): some token after the first begins with dnxhd
HasDnxhdMarker(stem) ==
    \E k \in 2..Len(stem) : stem[k] # <<>> /\ Lower(stem[k][1]) = "dnxhd"

\* ------------------------------------------- conversion.py: preset table
PresetRow(ext, speed100) == [extension |-> ext, speed100 |-> speed100]

\* extension and estimated_speed (in hundredths) of every preset
PRESETS ==
    [p \in {"dnxhd_1080p", "dnxhd_4k", "prores_proxy", "prores_lt", "prores_422",
            "prores_hq", "h264_high", "h264_medium", "h265_high", "h265_medium", "copy"} |->
        CASE p = "dnxhd_1080p"  -> PresetRow(".mov", 80)
          [] p = "dnxhd_4k"     -> PresetRow(".mov", 40)
          [] p = "prores_proxy" -> PresetRow(".mov", 60)
          [] p = "prores_lt"    -> PresetRow(".mov", 50)
          [] p = "prores_422"   -> PresetRow(".mov", 40)
          [] p = "prores_hq"    -> PresetRow(".mov", 35)
          [] p = "h264_high"    -> PresetRow(".mp4", 30)
          [] p = "h264_medium"  -> PresetRow(".mp4", 60)
          [] p = "h265_high"    -> PresetRow(".mp4", 15)
          [] p = "h265_medium"  -> PresetRow(".mp4", 25)
          [] p = "copy"         -> PresetRow(".mov", 1000)]

\* ConversionPreset(value) raises ValueError unless value names a preset
IsPresetValue(v) == v \in DOMAIN PRESETS

\* the drivers' try/except around ConversionPreset(preset_name)
PresetOrDefault(v) == IF IsPresetValue(v) THEN v ELSE "dnxhd_1080p"

estimate_conversion_time(duration_seconds, preset) ==
    IF preset \notin DOMAIN PRESETS THEN R(duration_seconds * 2, 1)
    ELSE R(duration_seconds * 100, PRESETS[preset].speed100)

\* is_gopro_file: the four patterns on the upper-cased file name, then the
\* metadata tag (tag is TRUE when the probe ran and a tag contains "GoPro")
MatchesGoProPattern(name) ==
    /\ Len(name.stem) = 1
    /\ Upper(name.ext) = ".MP4"
    /\ LET tok == name.stem[1] IN
       /\ tok # <<>>
       /\ \/ Upper(tok[1]) \in {"GH", "GP", "GX"} /\ Len(tok) = 7
          \/ Upper(tok[1]) = "GOPR" /\ Len(tok) = 5
       /\ \A k \in 2..Len(tok) : tok[k] \in DigitSet

\* variant: only the file name is looked at
is_gopro_file_by_name(file) == MatchesGoProPattern(file.name)

is_gopro_file(file) == MatchesGoProPattern(file.name) \/ file.tag

\* ------------------------------------------------ imports.py: the file walk
\* A source file as os.walk yields it: its name, whether it lies under a
\* hidden directory, the GoPro metadata tag, its modification day (None when
\* getmtime raises), its EXIF DateTimeOriginal day (None when absent) and
\* whether copying or moving it raises.
SourceFile(name, hidden_dir, tag, mtime, exif, fails) ==
    [name |-> name, hidden_dir |-> hidden_dir, tag |-> tag,
     mtime |-> mtime, exif |-> exif, fails |-> fails]

\* ImportRequestV2; file_prefix is the token sequence of the prefix, <<>> for ""
ImportRequestV2(project_name, file_prefix, convert_gopro, conversion_preset, delete_originals, selected_dates) ==
    [project_name |-> project_name, file_prefix |-> file_prefix,
     convert_gopro |-> convert_gopro, conversion_preset |-> conversion_preset,
     delete_originals |-> delete_originals, selected_dates |-> selected_dates]

\* the largest element of a non-empty set of numbers
SetMax(S) == CHOOSE m \in S : \A k \in S : k <= m

\* name.startswith(prefix + '_')
StartsWithPrefix(stem, prefix) ==
    /\ Len(stem) > Len(prefix)
    /\ SubSeq(stem, 1, Len(prefix)) = prefix

\* get_next_file_number(folder_path, prefix); folder is the set of names in
\* the category directory (it exists: the handler has just created it)
get_next_file_number(folder, prefix) ==
    IF prefix = <<>> THEN 1
    ELSE LET numbered == {n \in folder :
                             /\ ~IsHidden(n)
                             /\ StartsWithPrefix(n.stem, prefix)
                             /\ IsDigit(n.stem[Len(n.stem)])}
             nums == {IntOfStr(n.stem[Len(n.stem)]) : n \in numbered}
         IN  (IF nums = {} THEN 0 ELSE SetMax(nums)) + 1

\* get_file_date(filepath, ext)
get_file_date(file, ext) ==
    IF file.mtime = None THEN None
    ELSE IF ext \in IMAGE_EXTENSIONS /\ file.exif # None THEN file.exif
    ELSE file.mtime

\* the "while os.path.exists(dest_path)" loop: base_<n><ext> for the first free n
RECURSIVE FirstFreeName(_, _, _, _)
FirstFreeName(folder, base, ext, n) ==
    LET candidate == Name(base \o <<StrOfInt(n)>>, ext)
    IN  IF candidate \in folder THEN FirstFreeName(folder, base, ext, n + 1)
        ELSE candidate

\* variant: the computed name is used whether or not it is taken
ResolveDuplicateOverwrite(folder, new_filename, ext) == new_filename

\* destination name for new_filename in folder
ResolveDuplicate(folder, new_filename, ext) ==
    IF new_filename \in folder
    THEN FirstFreeName(folder, new_filename.stem, ext, 1)
    ELSE new_filename

\* the destination category of /import-v2 for a lower-cased extension
DestSubdirV2(ext) ==
    IF ext \in RAW_EXTENSIONS THEN "RAW"
    ELSE IF ext \in IMAGE_EXTENSIONS THEN "JPEG"
    ELSE IF ext \in VIDEO_EXTENSIONS THEN "Video"
    ELSE "Other"

\* the counter written after a placement in the category
NextCounter(counter) == counter + 1

\* f"{request.file_prefix}_{counter:04d}{ext}", or the original file name
PrefixedName(req, counter, ext, original) ==
    IF req.file_prefix # <<>>
    THEN Name(req.file_prefix \o <<Format04d(counter)>>, ext)
    ELSE original

\* variant: the date filter is applied to files of every category
DateFilteredAll(ext) == TRUE

\* imports.py 832: the date filter is for images only
DateFiltered(ext) == ext \in (IMAGE_EXTENSIONS \cup RAW_EXTENSIONS)

\* state of the walk before the first file
WalkStart(req, project_dirs) ==
    [files |-> project_dirs,
     counters |-> [d \in Subdirs |-> get_next_file_number(project_dirs[d], req.file_prefix)],
     imported |-> [d \in Subdirs |-> 0],
     gopro_files |-> <<>>,
     errors |-> <<>>,
     skipped_by_date |-> 0,
     placed |-> <<>>]

\* variant: the category's counter is advanced for a failed copy as well
FailedPlacementCounted(acc, file, dest_subdir) ==
    [acc EXCEPT !.errors = Append(@, [file |-> file.name, error |-> "copy failed"]),
                !.counters[dest_subdir] = NextCounter(@)]

\* the except branch of /import-v2: shutil.copy2 or shutil.move raised before
\* imported[dest_subdir] += 1 and counters[dest_subdir] += 1 were reached
FailedPlacement(acc, file, dest_subdir) ==
    [acc EXCEPT !.errors = Append(@, [file |-> file.name, error |-> "copy failed"])]

\* variant: a file skipped by the date filter uses up a sequence number
SkipByDateNumbered(acc, dest_subdir) ==
    [acc EXCEPT !.skipped_by_date = @ + 1, !.counters[dest_subdir] = NextCounter(@)]

\* imports.py 834-836: skipped_by_date += 1; continue
SkipByDate(acc, dest_subdir) == [acc EXCEPT !.skipped_by_date = @ + 1]

\* one iteration of the loop body over os.walk
WalkFileV2(acc, file, req) ==
    LET ext == Lower(file.name.ext)
        stem == file.name.stem
        file_date == get_file_date(file, ext)
        dest_subdir == DestSubdirV2(ext)
        counter == acc.counters[dest_subdir]
        new_filename == PrefixedName(req, counter, ext, file.name)
        dest == ResolveDuplicate(acc.files[dest_subdir], new_filename, ext)
    IN  IF file.hidden_dir \/ IsHidden(file.name) THEN acc
        ELSE IF HasDnxhdMarker(stem) THEN acc
        ELSE IF /\ req.selected_dates # {}
                /\ DateFiltered(ext)
                /\ file_date # None
                /\ file_date \notin req.selected_dates
             THEN SkipByDate(acc, dest_subdir)
        ELSE IF dest_subdir = "Video" /\ is_gopro_file(file) /\ req.convert_gopro
             THEN [acc EXCEPT !.gopro_files = Append(@, file)]
        ELSE IF file.fails
             THEN FailedPlacement(acc, file, dest_subdir)
        ELSE [acc EXCEPT !.files[dest_subdir] = @ \cup {dest},
                         !.imported[dest_subdir] = @ + 1,
                         !.counters[dest_subdir] = NextCounter(@),
                         !.placed = Append(@, [src |-> file.name, subdir |-> dest_subdir,
                                               name |-> dest, number |-> counter])]

RECURSIVE WalkV2(_, _, _)
WalkV2(acc, tree, req) ==
    IF tree = <<>> THEN acc
    ELSE WalkV2(WalkFileV2(acc, Head(tree), req), Tail(tree), req)

\* the walk of the legacy /import: every file is counted before it is copied
WalkFileV1(acc, file) ==
    LET ext == Lower(file.name.ext)
        dest_subdir == DestSubdirV2(ext)
        dest == ResolveDuplicate(acc.files[dest_subdir], file.name, ext)
        counted == [acc EXCEPT !.imported[dest_subdir] = @ + 1]
    IN  IF file.hidden_dir \/ IsHidden(file.name) THEN acc
        ELSE IF file.fails
             THEN [counted EXCEPT !.errors = Append(@, [file |-> file.name, error |-> "copy failed"])]
        ELSE [counted EXCEPT !.files[dest_subdir] = @ \cup {dest},
                             !.placed = Append(@, [src |-> file.name, subdir |-> dest_subdir,
                                                   name |-> dest, number |-> 0])]

RECURSIVE WalkV1(_, _)
WalkV1(acc, tree) ==
    IF tree = <<>> THEN acc
    ELSE WalkV1(WalkFileV1(acc, Head(tree)), Tail(tree))

EmptyProject == [d \in Subdirs |-> {}]

\* ------------------------------------------------------------------ state
VARIABLES
    now,          \* datetime.now() truncated to the second (strftime %Y%m%d_%H%M%S)
    active_jobs,  \* the registry: job id -> reference to a job dict
    heap,         \* the job dicts, by reference (Python objects, shared by aliasing)
    tasks,        \* the background tasks, in the order they were added
    procs,        \* the transcoder child processes that exist
    dirs,         \* project name -> category -> set of file names
    metadata,     \* project name -> what its .metadata.json records (times left out)
    last_import,  \* the last import call: its request, its source tree, its response
    last_call     \* the last call of another endpoint or function: arguments, result

vars == <<now, active_jobs, heap, tasks, procs, dirs, metadata, last_import, last_call>>

\* ------------------------------------------------------------- job records
\* f"gopro_{project}_{stamp}", f"convert_{project}_{stamp}", f"convert_{stamp}"
\* (the three shapes never coincide: project is None for the last one)
JobId(prefix, project, stamp) == [prefix |-> prefix, project |-> project, stamp |-> stamp]

\* None where a job id is expected
NoJobId == JobId(None, None, 0)

\* variant: the job is inserted as already running
NewBatchJobRunning(total) ==
    [status |-> "running", progress |-> R(0, 1), current_file |-> NoFile,
     completed |-> 0, total |-> total, errors |-> <<>>]

\* progress_callback has not been called in the current convert_video call
NoCall == <<>>

\* the dict both import handlers insert
NewBatchJob(total) ==
    [status |-> "queued", progress |-> R(0, 1), current_file |-> NoFile,
     completed |-> 0, total |-> total, errors |-> <<>>]

\* the dict convert_single inserts
NewSingleJob(input, output, preset) ==
    [status |-> "running", progress |-> R(0, 1),
     input |-> input, output |-> output, preset |-> preset]

\* d[key] = value on a dict (adds the key when it is missing)
SetKey(d, key, value) ==
    [k \in DOMAIN d \cup {key} |-> IF k = key THEN value ELSE d[k]]

\* variant: the write reaches every job dict
StoreEverywhere(h, ref, key, value) == [r \in DOMAIN h |-> SetKey(h[r], key, value)]

\* heap with h[ref][key] = value
Store(h, ref, key, value) == [h EXCEPT ![ref] = SetKey(@, key, value)]

\* get_job_status: the dict a poller reads for job_id (job_id is a key)
get_job_status(job_id) == heap[active_jobs[job_id]]

\* active_jobs[job_id] = {...}: a fresh dict, bound to the key
Insert(job_id, record) ==
    /\ heap' = Append(heap, record)
    /\ active_jobs' = [k \in DOMAIN active_jobs \cup {job_id} |->
                          IF k = job_id THEN Len(heap) + 1 ELSE active_jobs[k]]

\* ------------------------------------------------------- background tasks
Task(kind, job_id, items, project, preset_name, file_prefix, start_counter, output_has_dir, delete_originals) ==
    [kind |-> kind,               \* "gopro", "batch" or "single"
     job_id |-> job_id,
     job |-> 0,                   \* the local `job`: a reference, 0 before it is read
     items |-> items,             \* gopro_files / video_files / the one input
     i |-> 0,                     \* loop index
     pc |-> "pending",
     project |-> project,
     preset_name |-> preset_name,
     file_prefix |-> file_prefix,
     counter |-> start_counter,
     output_has_dir |-> output_has_dir,
     delete_originals |-> delete_originals,
     elapsed |-> 0,
     estimated_duration |-> R(0, 1),
     cb |-> NoCall,               \* the progress last passed to progress_callback
     removed |-> {},              \* the originals the driver has deleted
     result |-> None]

AddTask(task) == tasks' = Append(tasks, task)

TaskIds == 1..Len(tasks)

\* ---------------------------------------------------------- conversion.py
\* variant: the estimate is reported as it is
PollProgressUncapped(elapsed, estimated_duration) ==
    R(elapsed * 100 * estimated_duration[2], estimated_duration[1])

\* progress = min(95, (elapsed / estimated_duration) * 100)
PollProgress(elapsed, estimated_duration) ==
    RMin(R(ProgressCap, 1),
         R(elapsed * 100 * estimated_duration[2], estimated_duration[1]))

\* variant: the estimate is taken whatever the duration
EstimatedDurationNoFallback(duration, preset) == estimate_conversion_time(duration, preset)

\* estimated_duration = estimate_conversion_time(duration, preset) if duration else 60
EstimatedDuration(duration, preset) ==
    IF duration # 0 THEN estimate_conversion_time(duration, preset)
    ELSE R(DefaultEstimate, 1)

\* variant: "while process.poll() is not None"
LoopContinuesInverted(process) == process.state # "alive"

\* "while process.poll() is None": the loop body runs while the child is alive
LoopContinues(process) == process.state = "alive"

\* the child process task t started for its current item
ProcessOf(t) == CHOOSE p \in procs : p.owner = t /\ p.item = tasks[t].i
HasProcess(t) == \E p \in procs : p.owner = t /\ p.item = tasks[t].i

\* ------------------------------------------------- progress callbacks
\* make_progress_callback(...).update_progress in run_gopro_conversion:
\* file_progress = (file_index + (progress / 100)) / total * 100
GoProFileProgress(file_index, progress, total) ==
    R(100 * file_index * progress[2] + progress[1], progress[2] * total)

\* the progress a driver writes after item i: ((i + 1) / total) * 100
ItemDoneProgress(i, total) == R((i + 1) * 100, total)

\* update_progress of run_batch_conversion: job["progress"] = progress
BatchFileProgress(file_index, progress, total) == progress

\* the callback convert_video is given by task t, applied to heap h
Callback(h, t, progress, message) ==
    LET task == tasks[t]
        total == Len(task.items)
    IN  CASE task.kind = "gopro" ->
               Store(Store(h, task.job, "progress",
                           GoProFileProgress(task.i, progress, total)),
                     task.job, "current_message", message)
          [] task.kind = "batch" ->
               Store(Store(h, task.job, "progress",
                           BatchFileProgress(task.i, progress, total)),
                     task.job, "current_message", message)
          [] task.kind = "single" ->
               Store(h, active_jobs[task.job_id], "progress", progress)

\* --------------------------------------------------------------- inputs
Digits6(a, b) == <<"0", "1", "0", "0", a, b>>
GoProName(n) == Name(<< <<"GH">> \o Digits6("0", DigitChars[n + 1]) >>, ".MP4")

GH1 == SourceFile(GoProName(1), FALSE, FALSE, "2024-01-15", None, FALSE)
GH2 == SourceFile(GoProName(2), FALSE, FALSE, "2024-01-15", None, FALSE)

JobProjects == {"p1"}
\* bad.mp4: its copy raises
BadClip == SourceFile(Name(<< <<"bad">> >>, ".mp4"), FALSE, FALSE, "2024-01-15", None, TRUE)

JobTrees == {<<GH1, GH2>>, <<BadClip, GH2>>}
LegacyTrees == {<<GH1>>}
JobPrefixes == {<<>>}
ImportPresets == {"dnxhd_1080p"}
ConvertPresets == {"h264_high", "bogus"}
ProbeDurations == {60}          \* 0 stands for: no duration could be probed
ElapsedValues == {30, 90}       \* seconds since start_time seen after a sleep
ToolInputs == BOOLEAN          \* find_ffmpeg() finds the executable
SourceInputs == {TRUE}         \* os.path.exists(input_path)
SpawnInputs == {TRUE}          \* Popen returns (FALSE: it raises)
ClipName == Name(<< <<"clip">> >>, ".mp4")

\* ----------------------------------------------------- request handlers
\* ImportRequest of the legacy /import
ImportRequest(project_name, convert_videos, conversion_preset, delete_originals) ==
    [project_name |-> project_name, convert_videos |-> convert_videos,
     conversion_preset |-> conversion_preset, delete_originals |-> delete_originals]

\* variant: a job for every request that asks for conversion
ShouldEnqueueAlways(req, gopro_files) == req.convert_gopro

\* imports.py 893: if gopro_files and request.convert_gopro
ShouldEnqueue(req, gopro_files) == gopro_files # <<>> /\ req.convert_gopro

\* imports.py 892-913: the GoPro job of /import-v2
EnqueueGoPro(req, gopro_files, video_counter) ==
    IF ShouldEnqueue(req, gopro_files)
    THEN LET job_id == JobId("gopro", req.project_name, now) IN
         /\ Insert(job_id, NewBatchJob(Len(gopro_files)))
         /\ AddTask(Task("gopro", job_id, [k \in 1..Len(gopro_files) |-> gopro_files[k].name],
                         req.project_name, req.conversion_preset, req.file_prefix,
                         video_counter, TRUE, req.delete_originals))
    ELSE UNCHANGED <<active_jobs, heap, tasks>>

ProjectDirs(project) == IF project \in DOMAIN dirs THEN dirs[project] ELSE EmptyProject

WithProject(project, files) ==
    [p \in DOMAIN dirs \cup {project} |-> IF p = project THEN files ELSE dirs[p]]

\* the metadata a handler creates for a project that has none (notes and
\* times left out; culled_files is kept as a set, as cull_file keeps it)
DefaultMetadata == [last_import |-> FALSE, culled_files |-> {}]

\* json.load of the project's .metadata.json, or the default
LoadMetadata(project) ==
    IF project \in DOMAIN metadata THEN metadata[project] ELSE DefaultMetadata

\* json.dump(metadata, f): the record of the project after the write
SaveMetadata(project, record) ==
    [p \in DOMAIN metadata \cup {project} |-> IF p = project THEN record ELSE metadata[p]]

\* no call of another endpoint or function has returned yet
NoRequest == [op |-> None]

\* no import call has returned yet
NoImport ==
    [status |-> 0, endpoint |-> None, request |-> ImportRequest(None, FALSE, None, FALSE),
     source |-> <<>>,
     imported |-> [d \in Subdirs |-> 0], gopro_queued |-> 0, errors |-> <<>>,
     placed |-> <<>>, skipped_by_date |-> 0,
     start_counters |-> [d \in Subdirs |-> 0],
     conversion_job_id |-> NoJobId]

\* raise HTTPException(status_code=404, ...)
NotFound(endpoint, req) ==
    [NoImport EXCEPT !.status = 404, !.endpoint = endpoint, !.request = req]

\* variant: the category folders are created before the source path is tested
DirsOnNotFoundCreated(project) == WithProject(project, ProjectDirs(project))

\* the library after a request for a missing source path: the 404 is raised
\* before os.makedirs
DirsOnNotFound(project) == dirs

\* POST /import-v2; tree is what os.walk(source_path) yields
import_files_v2(req, source_exists, tree) ==
    IF ~source_exists
    THEN /\ last_import' = NotFound("import-v2", req)
         /\ dirs' = DirsOnNotFound(req.project_name)
         /\ UNCHANGED <<now, active_jobs, heap, tasks, procs, metadata, last_call>>
    ELSE LET start == WalkStart(req, ProjectDirs(req.project_name))
             walk == WalkV2(start, tree, req)
             queued == ShouldEnqueue(req, walk.gopro_files)
         IN  /\ dirs' = WithProject(req.project_name, walk.files)
             /\ metadata' = SaveMetadata(req.project_name,
                                         [LoadMetadata(req.project_name)
                                             EXCEPT !.last_import = TRUE])
             /\ EnqueueGoPro(req, walk.gopro_files, walk.counters["Video"])
             /\ last_import' = [status |-> 200, endpoint |-> "import-v2",
                                request |-> req, source |-> tree,
                                imported |-> walk.imported,
                                gopro_queued |-> Len(walk.gopro_files),
                                errors |-> walk.errors,
                                placed |-> walk.placed,
                                skipped_by_date |-> walk.skipped_by_date,
                                start_counters |-> start.counters,
                                conversion_job_id |->
                                    IF queued THEN JobId("gopro", req.project_name, now)
                                    ELSE NoJobId]
             /\ UNCHANGED <<now, procs, last_call>>

\* POST /import (legacy); tree is what os.walk(source_path) yields
import_files(req, source_exists, tree) ==
    IF ~source_exists
    THEN /\ last_import' = NotFound("import", req)
         /\ dirs' = DirsOnNotFound(req.project_name)
         /\ UNCHANGED <<now, active_jobs, heap, tasks, procs, metadata, last_call>>
    ELSE LET start == WalkStart([file_prefix |-> <<>>], ProjectDirs(req.project_name))
             walk == WalkV1(start, tree)
             job_id == JobId("convert", req.project_name, now)
         IN  /\ dirs' = WithProject(req.project_name, walk.files)
             /\ metadata' = IF req.project_name \in DOMAIN metadata THEN metadata
                            ELSE SaveMetadata(req.project_name, DefaultMetadata)
             /\ IF req.convert_videos
                THEN /\ Insert(job_id, NewBatchJob(walk.imported["Video"]))
                     /\ AddTask(Task("batch", job_id, <<>>, req.project_name,
                                     req.conversion_preset, <<>>, 0, TRUE, FALSE))
                ELSE UNCHANGED <<active_jobs, heap, tasks>>
             /\ last_import' = [status |-> 200, endpoint |-> "import",
                                request |-> req, source |-> tree,
                                imported |-> walk.imported,
                                gopro_queued |-> 0,
                                errors |-> walk.errors,
                                placed |-> walk.placed,
                                skipped_by_date |-> 0,
                                start_counters |-> start.counters,
                                conversion_job_id |->
                                    IF req.convert_videos THEN job_id ELSE NoJobId]
             /\ UNCHANGED <<now, procs, last_call>>

\* POST /convert; a missing input (404) or an unknown preset (400) changes nothing
convert_single(input, input_exists, output_has_dir, preset) ==
    /\ input_exists
    /\ IsPresetValue(preset)
    /\ LET job_id == JobId("convert", None, now) IN
       /\ Insert(job_id, NewSingleJob(input, output_has_dir, preset))
       /\ AddTask(Task("single", job_id, <<input>>, None, preset, <<>>, 0,
                       output_has_dir, FALSE))
    /\ UNCHANGED <<now, procs, dirs, metadata, last_import, last_call>>

\* the clock of datetime.now()
Tick ==
    /\ now < MaxClock
    /\ now' = now + 1
    /\ UNCHANGED <<active_jobs, heap, tasks, procs, dirs, metadata, last_import, last_call>>

\* ------------------------------------------------------ the job drivers
UpdateTask(t, task) == tasks' = [tasks EXCEPT ![t] = task]

\* os.listdir: the names of a directory in the order the file system yields
\* them (some fixed order; none of the drivers relies on which)
RECURSIVE ListDir(_)
ListDir(folder) ==
    IF folder = {} THEN <<>>
    ELSE LET first == CHOOSE n \in folder : TRUE
         IN  <<first>> \o ListDir(folder \ {first})

RECURSIVE SelectSeq2(_, _)
SelectSeq2(seq, keep) ==
    IF seq = <<>> THEN <<>>
    ELSE (IF Head(seq) \in keep THEN <<Head(seq)>> ELSE <<>>) \o SelectSeq2(Tail(seq), keep)

\* video_files of run_batch_conversion
VideoFiles(folder) ==
    SelectSeq2(ListDir(folder), {n \in folder : Lower(n.ext) \in VIDEO_EXTENSIONS})

\* variant: a batch with a failed item ends "failed"
BatchTerminalStatusByErrors(job) == IF job.errors # <<>> THEN "failed" ELSE "completed"

\* the status both batch drivers write after their loop
BatchTerminalStatus(job) == "completed"

\* active_jobs[job_id]["status"] = "completed" if result["success"] else "failed"
SingleTerminalStatus(result) == IF result = "ok" THEN "completed" ELSE "failed"

\* output file name of the current item of a batch task
OutputName(task) ==
    LET extension == PRESETS[PresetOrDefault(task.preset_name)].extension
        input == task.items[task.i + 1]
    IN  IF task.kind = "gopro" /\ task.file_prefix # <<>>
        THEN Name(task.file_prefix \o <<Format04d(task.counter)>>, extension)
        ELSE Name(input.stem, extension)

\* "if os.path.exists(output_path) and output_path != input_path" (legacy driver)
AlreadyConverted(task) ==
    /\ task.kind = "batch"
    /\ OutputName(task) \in ProjectDirs(task.project)["Video"]
    /\ OutputName(task) # task.items[task.i + 1]

\* run_gopro_conversion 934-950: job = active_jobs[job_id]; job["status"] = "running"
run_gopro_start(t) ==
    /\ tasks[t].kind = "gopro" /\ tasks[t].pc = "pending"
    /\ LET ref == active_jobs[tasks[t].job_id] IN
       /\ heap' = Store(heap, ref, "status", "running")
       /\ UpdateTask(t, [tasks[t] EXCEPT !.job = ref, !.pc = "loop"])
    /\ UNCHANGED <<now, active_jobs, procs, dirs, metadata, last_import, last_call>>

\* run_batch_conversion 514-515
run_batch_start(t) ==
    /\ tasks[t].kind = "batch" /\ tasks[t].pc = "pending"
    /\ LET ref == active_jobs[tasks[t].job_id] IN
       /\ heap' = Store(heap, ref, "status", "running")
       /\ UpdateTask(t, [tasks[t] EXCEPT !.job = ref, !.pc = "list"])
    /\ UNCHANGED <<now, active_jobs, procs, dirs, metadata, last_import, last_call>>

\* run_batch_conversion 517-537: the early return, or the listing and job["total"]
run_batch_list(t) ==
    /\ tasks[t].kind = "batch" /\ tasks[t].pc = "list"
    /\ IF tasks[t].project \notin DOMAIN dirs
       THEN /\ heap' = Store(heap, tasks[t].job, "status", BatchTerminalStatus(heap[tasks[t].job]))
            /\ UpdateTask(t, [tasks[t] EXCEPT !.pc = "done"])
       ELSE LET video_files == VideoFiles(dirs[tasks[t].project]["Video"]) IN
            /\ heap' = Store(heap, tasks[t].job, "total", Len(video_files))
            /\ UpdateTask(t, [tasks[t] EXCEPT !.items = video_files, !.pc = "loop"])
    /\ UNCHANGED <<now, active_jobs, procs, dirs, metadata, last_import, last_call>>

\* run_batch_conversion 544-547: job["completed"] += 1; continue
run_batch_skip(t) ==
    /\ tasks[t].kind = "batch" /\ tasks[t].pc = "loop"
    /\ tasks[t].i < Len(tasks[t].items)
    /\ AlreadyConverted(tasks[t])
    /\ heap' = Store(heap, tasks[t].job, "completed", heap[tasks[t].job].completed + 1)
    /\ UpdateTask(t, [tasks[t] EXCEPT !.i = @ + 1])
    /\ UNCHANGED <<now, active_jobs, procs, dirs, metadata, last_import, last_call>>

\* convert_video 343-388 as called for the current item: what the call does
\* before its polling loop.  "raise": an exception leaves convert_video (the
\* os.makedirs of an empty dirname, outside the try); "spawn": Popen
\* returned; otherwise the error of the failure result.
ConvertVideoEntry(task, ffmpeg, input_exists, popen_ok) ==
    IF ~ffmpeg THEN "ffmpeg not found"
    ELSE IF ~input_exists THEN "Input file not found"
    ELSE IF ~task.output_has_dir THEN "raise"
    ELSE IF ~popen_ok THEN "OSError"
    ELSE "spawn"

\* what the transcoder writes to its stdout and stderr pipes in a run, in
\* chunks: as much as a pipe holds at most, or one chunk more
QuietOutputs == {0}
DiagnosticOutputs == 0..(PipeCapacity + 1)

\* the loop body up to the polling loop of convert_video; the child that
\* Popen starts with stdout=PIPE, stderr=PIPE will write one of outputs
begin_item_writing(t, outputs) ==
    /\ tasks[t].pc = (IF tasks[t].kind = "single" THEN "pending" ELSE "loop")
    /\ tasks[t].i < Len(tasks[t].items)
    /\ ~AlreadyConverted(tasks[t])
    /\ \E ffmpeg \in ToolInputs, input_exists \in SourceInputs, popen_ok \in SpawnInputs,
          duration \in ProbeDurations, output \in outputs :
         LET task == tasks[t]
             entry == ConvertVideoEntry(task, ffmpeg, input_exists, popen_ok)
         IN  /\ heap' = IF task.kind = "single" THEN heap
                        ELSE Store(heap, task.job, "current_file", task.items[task.i + 1])
             /\ UpdateTask(t,
                  CASE entry = "spawn" ->
                         [task EXCEPT !.pc = "poll", !.elapsed = 0,
                                      !.estimated_duration =
                                          EstimatedDuration(duration, PresetOrDefault(task.preset_name))]
                    [] entry = "raise" -> [task EXCEPT !.pc = "raised"]
                    [] OTHER -> [task EXCEPT !.pc = "ret", !.result = entry])
             /\ procs' = IF entry = "spawn"
                         THEN procs \cup {[owner |-> t, item |-> task.i,
                                           state |-> "alive", returncode |-> -1,
                                           unwritten |-> output, pipe |-> 0,
                                           project |-> task.project,
                                           output |-> IF task.kind = "single" THEN NoFile
                                                      ELSE OutputName(task)]}
                         ELSE procs
    /\ UNCHANGED <<now, active_jobs, dirs, metadata, last_import, last_call>>

\* the same with a child that writes nothing
begin_item(t) == begin_item_writing(t, QuietOutputs)

\* the child writes a chunk of its output into the pipe; when the pipe is
\* full the write blocks, and nothing reads the pipe while the child lives
\* (convert_video reads stderr only after the exit, conversion.py:420)
child_write(p) ==
    /\ p \in procs
    /\ p.state = "alive"
    /\ p.unwritten > 0
    /\ p.pipe < PipeCapacity
    /\ procs' = (procs \ {p}) \cup {[p EXCEPT !.unwritten = @ - 1, !.pipe = @ + 1]}
    /\ UNCHANGED <<now, active_jobs, heap, tasks, dirs, metadata, last_import, last_call>>

\* one iteration of the polling loop: sleep, elapsed, progress, callback
poll(t) ==
    /\ tasks[t].pc = "poll"
    /\ HasProcess(t)
    /\ LoopContinues(ProcessOf(t))
    /\ \E elapsed \in ElapsedValues :
         /\ elapsed > tasks[t].elapsed
         /\ heap' = Callback(heap, t, PollProgress(elapsed, tasks[t].estimated_duration),
                             "Converting")
         /\ UpdateTask(t, [tasks[t] EXCEPT !.elapsed = elapsed,
                                          !.cb = PollProgress(elapsed, tasks[t].estimated_duration)])
    /\ UNCHANGED <<now, active_jobs, procs, dirs, metadata, last_import, last_call>>

\* the Video directory after the transcoder a batch task started has written
\* output_path ("ffmpeg -y ... output_path": an existing file is replaced)
WithOutput(process) ==
    IF process.project \notin DOMAIN dirs THEN dirs
    ELSE [dirs EXCEPT ![process.project]["Video"] = @ \cup {process.output}]

\* the transcoder exits, with any status (returncode is None, written -1,
\* until then) once it has written all its output; with status 0 its output
\* file exists
proc_exit(p) ==
    /\ p \in procs
    /\ p.state = "alive"
    /\ p.unwritten = 0
    /\ \E code \in {0, 1} :
         /\ procs' = (procs \ {p}) \cup {[p EXCEPT !.state = "exited", !.returncode = code]}
         /\ dirs' = IF code = 0 THEN WithOutput(p) ELSE dirs
    /\ UNCHANGED <<now, active_jobs, heap, tasks, metadata, last_import, last_call>>

\* convert_video 407-424: after the loop, the final callback and the result
reap(t) ==
    /\ tasks[t].pc = "poll"
    /\ HasProcess(t)
    /\ ~LoopContinues(ProcessOf(t))
    /\ LET process == ProcessOf(t)
           ok == process.returncode = 0
       IN  /\ heap' = IF ok THEN Callback(heap, t, R(FinalProgress, 1), "Complete") ELSE heap
           /\ UpdateTask(t, [tasks[t] EXCEPT !.pc = "ret", !.elapsed = 0,
                                            !.estimated_duration = R(0, 1),
                                            !.cb = IF ok THEN R(FinalProgress, 1) ELSE @,
                                            !.result = IF ok THEN "ok" ELSE "ffmpeg failed"])
           /\ procs' = IF process.state = "exited" THEN procs \ {process} ELSE procs
    /\ UNCHANGED <<now, active_jobs, dirs, metadata, last_import, last_call>>

\* the record a driver keeps of the item's outcome (976-990, 557-563)
RecordOutcome(job, file, result) ==
    IF result = "ok"
    THEN [job EXCEPT !.completed = @ + 1]
    ELSE [job EXCEPT !.errors = Append(@, [file |-> file, error |-> result])]

\* variant: the loop ends at the first item that failed
NextIndexAbort(task) ==
    IF task.result = "ok" THEN task.i + 1 ELSE Len(task.items)

\* for i, input_path in enumerate(...): the index of the next iteration
NextIndex(task) == task.i + 1

\* os.remove(input_path) returns, or raises
RemoveInputs == BOOLEAN

\* variant: the original is deleted whatever the result
DeletesAlways(task) == task.kind = "gopro" /\ task.delete_originals

\* "if result['success']: ... if delete_originals:" of run_gopro_conversion
Deletes(task) == task.kind = "gopro" /\ task.result = "ok" /\ task.delete_originals

\* the rest of the loop body of both batch drivers, after convert_video returned
post_item(t) ==
    /\ tasks[t].kind \in {"gopro", "batch"} /\ tasks[t].pc = "ret"
    /\ \E remove_ok \in RemoveInputs :
       LET task == tasks[t]
           recorded == RecordOutcome(heap[task.job], task.items[task.i + 1], task.result)
       IN  /\ heap' = [heap EXCEPT ![task.job] =
                          SetKey(recorded, "progress", ItemDoneProgress(task.i, Len(task.items)))]
           /\ UpdateTask(t, [task EXCEPT !.pc = "loop", !.i = NextIndex(task), !.result = None,
                                        !.cb = NoCall,
                                        !.removed = IF Deletes(task) /\ remove_ok
                                                    THEN @ \cup {task.items[task.i + 1]}
                                                    ELSE @,
                                        !.counter = IF task.kind = "gopro" /\ task.result = "ok"
                                                    THEN @ + 1 ELSE @])
    /\ UNCHANGED <<now, active_jobs, procs, dirs, metadata, last_import, last_call>>

\* after the loop: job["status"] = "completed"; job["current_file"] = None
finish(t) ==
    /\ tasks[t].kind \in {"gopro", "batch"} /\ tasks[t].pc = "loop"
    /\ tasks[t].i = Len(tasks[t].items)
    /\ heap' = Store(Store(heap, tasks[t].job, "status", BatchTerminalStatus(heap[tasks[t].job])),
                     tasks[t].job, "current_file", NoFile)
    /\ UpdateTask(t, [tasks[t] EXCEPT !.pc = "done"])
    /\ UNCHANGED <<now, active_jobs, procs, dirs, metadata, last_import, last_call>>

\* run_conversion 613: active_jobs[job_id]["status"] = ...
set_status(t) ==
    /\ tasks[t].kind = "single" /\ tasks[t].pc = "ret"
    /\ heap' = Store(heap, active_jobs[tasks[t].job_id], "status",
                     SingleTerminalStatus(tasks[t].result))
    /\ UpdateTask(t, [tasks[t] EXCEPT !.pc = "set_result"])
    /\ UNCHANGED <<now, active_jobs, procs, dirs, metadata, last_import, last_call>>

\* run_conversion 614: active_jobs[job_id]["result"] = result
set_result(t) ==
    /\ tasks[t].kind = "single" /\ tasks[t].pc = "set_result"
    /\ heap' = Store(heap, active_jobs[tasks[t].job_id], "result",
                     [success |-> tasks[t].result = "ok",
                      error |-> IF tasks[t].result = "ok" THEN None ELSE tasks[t].result])
    /\ UpdateTask(t, [tasks[t] EXCEPT !.pc = "done", !.result = None, !.cb = NoCall])
    /\ UNCHANGED <<now, active_jobs, procs, dirs, metadata, last_import, last_call>>

\* -------------------------------------------------------- specification
ConvertedClip == Name(<< <<"GH">> \o Digits6("0", "1") >>, ".mov")

\* the library at start-up: project p1 exists and holds one converted clip
JobLibrary == [p \in JobProjects |-> [EmptyProject EXCEPT !["Video"] = {ConvertedClip}]]

Init ==
    /\ now = 0
    /\ active_jobs = <<>>
    /\ heap = <<>>
    /\ tasks = <<>>
    /\ procs = {}
    /\ dirs = JobLibrary
    /\ metadata = [p \in JobProjects |-> DefaultMetadata]
    /\ last_import = NoImport
    /\ last_call = NoRequest

Accepting == Len(tasks) < MaxJobs

ImportV2 ==
    /\ Accepting
    /\ \E project \in JobProjects, tree \in JobTrees, prefix \in JobPrefixes,
          preset \in ImportPresets :
         import_files_v2(ImportRequestV2(project, prefix, TRUE, preset, FALSE, {}), TRUE, tree)

Import ==
    /\ Accepting
    /\ \E project \in JobProjects, tree \in LegacyTrees, preset \in ImportPresets :
         import_files(ImportRequest(project, TRUE, preset, FALSE), TRUE, tree)

Convert ==
    /\ Accepting
    /\ \E input_exists \in BOOLEAN, output_has_dir \in BOOLEAN, preset \in ConvertPresets :
         convert_single(ClipName, input_exists, output_has_dir, preset)

GoProStart == \E t \in TaskIds : run_gopro_start(t)
BatchStart == \E t \in TaskIds : run_batch_start(t)
BatchList == \E t \in TaskIds : run_batch_list(t)
BatchSkip == \E t \in TaskIds : run_batch_skip(t)
BeginItem == \E t \in TaskIds : begin_item(t)
Poll == \E t \in TaskIds : poll(t)
ProcExit == \E p \in procs : proc_exit(p)
Reap == \E t \in TaskIds : reap(t)
PostItem == \E t \in TaskIds : post_item(t)
Finish == \E t \in TaskIds : finish(t)
SetStatus == \E t \in TaskIds : set_status(t)
SetResult == \E t \in TaskIds : set_result(t)

TaskStep ==
    \/ GoProStart \/ BatchStart \/ BatchList \/ BatchSkip \/ BeginItem
    \/ Poll \/ Reap \/ PostItem \/ Finish \/ SetStatus \/ SetResult

Next == Tick \/ ImportV2 \/ Import \/ Convert \/ TaskStep \/ ProcExit

Spec == Init /\ [][Next]_vars

\* /import-v2 with convert_gopro and delete_originals, and the GoPro driver
ImportDeleting ==
    /\ Accepting
    /\ \E project \in JobProjects, tree \in JobTrees, preset \in ImportPresets :
         import_files_v2(ImportRequestV2(project, <<>>, TRUE, preset, TRUE, {}), TRUE, tree)

NextDelete ==
    \/ ImportDeleting \/ GoProStart \/ BeginItem \/ Poll \/ ProcExit \/ Reap
    \/ PostItem \/ Finish

SpecDelete == Init /\ [][NextDelete]_vars

\* background threads are scheduled fairly and every child process exits
FairSpec == Spec /\ WF_vars(TaskStep) /\ WF_vars(ProcExit)

\* ------------------------------------------- the file walk of /import-v2
Tok(chunk) == <<chunk>>
Trip == <<Tok("trip")>>

\* trip_old_7.CR2, IMG_0001.CR2, IMG_0002.NEF, IMG_0001.JPG, bad.CR2, .DS_Store
OldRaw == SourceFile(Name(<<Tok("trip"), Tok("old"), <<"7">>>>, ".CR2"),
                     FALSE, FALSE, "2024-01-15", None, FALSE)
Raw1 == SourceFile(Name(<<Tok("IMG"), Format04d(1)>>, ".CR2"),
                   FALSE, FALSE, "2024-01-15", None, FALSE)
Raw2 == SourceFile(Name(<<Tok("IMG"), Format04d(2)>>, ".NEF"),
                   FALSE, FALSE, "2024-01-16", None, FALSE)
Jpg1 == SourceFile(Name(<<Tok("IMG"), Format04d(1)>>, ".JPG"),
                   FALSE, FALSE, "2024-01-16", "2024-01-15", FALSE)
BadRaw == SourceFile(Name(<<Tok("bad")>>, ".CR2"),
                     FALSE, FALSE, "2024-01-15", None, TRUE)
DsStore == SourceFile(Name(<<<<".", "DS">>, Tok("Store")>>, ""),
                      FALSE, FALSE, "2024-01-15", None, FALSE)

Clip == SourceFile(ClipName, FALSE, FALSE, "2024-01-16", None, FALSE)

\* nodate.CR2: os.path.getmtime raises for it
NoDateRaw == SourceFile(Name(<<Tok("nodate")>>, ".CR2"), FALSE, FALSE, None, None, FALSE)

ImportTrees ==
    {<<>>, <<OldRaw>>, <<Raw1, Raw2>>, <<Raw1, Jpg1, Raw2>>, <<Raw1, BadRaw, Raw2>>,
     <<DsStore, Jpg1>>, <<GH1, Clip>>, <<Raw2, NoDateRaw, Clip>>}
SourcePresets == {"dnxhd_1080p", "bogus"}
ImportPrefixes == {<<>>, Trip}
ImportDates == {{}, {"2024-01-15"}}

\* the number of files the project holds
RECURSIVE SumOver(_, _)
SumOver(f, S) ==
    IF S = {} THEN 0
    ELSE LET x == CHOOSE y \in S : TRUE IN f[x] + SumOver(f, S \ {x})

FileCount(project) ==
    SumOver([d \in Subdirs |-> Cardinality(ProjectDirs(project)[d])], Subdirs)

InitImport ==
    /\ now = 0
    /\ active_jobs = <<>>
    /\ heap = <<>>
    /\ tasks = <<>>
    /\ procs = {}
    /\ dirs = <<>>
    /\ metadata = <<>>
    /\ last_import = NoImport
    /\ last_call = NoRequest

\* one POST /import-v2 for a source path that exists
ImportOnly ==
    \E project \in JobProjects, tree \in ImportTrees, prefix \in ImportPrefixes,
       dates \in ImportDates, convert_gopro \in BOOLEAN :
      \E preset \in (IF convert_gopro THEN SourcePresets ELSE {"dnxhd_1080p"}) :
         /\ FileCount(project) + Len(tree) <= MaxFiles
         /\ convert_gopro => Accepting
         /\ import_files_v2(ImportRequestV2(project, prefix, convert_gopro, preset,
                                            FALSE, dates), TRUE, tree)

\* one POST /import for a source path that exists
ImportLegacy ==
    \E project \in JobProjects, tree \in ImportTrees, convert_videos \in BOOLEAN :
         /\ FileCount(project) + Len(tree) <= MaxFiles
         /\ convert_videos => Accepting
         /\ import_files(ImportRequest(project, convert_videos, "dnxhd_1080p", FALSE),
                         TRUE, tree)

\* an import request whose source path does not exist
ImportMissing ==
    \E project \in JobProjects, convert \in BOOLEAN :
         \/ import_files_v2(ImportRequestV2(project, <<>>, convert, "dnxhd_1080p",
                                            FALSE, {}), FALSE, <<>>)
         \/ import_files(ImportRequest(project, convert, "dnxhd_1080p", FALSE),
                         FALSE, <<>>)

NextImport == ImportOnly \/ ImportLegacy \/ ImportMissing

SpecImport == InitImport /\ [][NextImport]_vars

\* ------------------------------------------------------------ properties
JobIds == DOMAIN active_jobs
TerminalStatuses == {"completed", "failed"}

\* a batch job dict (both import handlers) as opposed to a /convert dict
IsBatchRecord(job) == "total" \in DOMAIN job
IsBatchTask(t) == tasks[t].kind \in {"gopro", "batch"}

\* the dict a poller reads for job_id in the next state
NextJobStatus(job_id) == heap'[active_jobs'[job_id]]

\* job_id is bound to a new dict by this step
Inserted(job_id) ==
    /\ job_id \in DOMAIN active_jobs'
    /\ job_id \in DOMAIN active_jobs => active_jobs'[job_id] # active_jobs[job_id]

\* C1: in every reachable state, every batch job of the registry has
\* completed + len(errors) <= total.
C1_CompletedPlusErrorsAtMostTotal ==
    \A id \in JobIds :
        LET job == get_job_status(id) IN
        IsBatchRecord(job) => job.completed + Len(job.errors) <= job.total

\* C2: while a job's status is running, the progress a poller reads for
\* its id never decreases from one state to the next.
C2_ProgressNonDecreasing ==
    [][\A id \in JobIds :
          (get_job_status(id).status = "running" /\ NextJobStatus(id).status = "running")
              => RLeq(get_job_status(id).progress, NextJobStatus(id).progress)]_vars

StatusForward(before, after) ==
    \/ after = before
    \/ before = "queued" /\ after = "running"
    \/ before = "running" /\ after \in TerminalStatuses

\* C3: the status read for a job id only moves forward: queued -> running
\* -> completed | failed; it never returns to queued and never leaves a
\* terminal value.
C3_StatusOnlyForward ==
    [][\A id \in JobIds :
          StatusForward(get_job_status(id).status, NextJobStatus(id).status)]_vars

\* C4: a job is only ever created under an id that is not yet a key of the
\* registry: no step binds an existing key to another job dict.
C4_FreshJobId ==
    [][\A id \in JobIds : active_jobs'[id] = active_jobs[id]]_vars

\* C5: under fair scheduling, every job that is inserted eventually has
\* status completed or failed.
JobOfTaskTerminal(t) ==
    /\ t \in TaskIds
    /\ get_job_status(tasks[t].job_id).status \in TerminalStatuses

C5_EveryJobTerminates ==
    \A t \in 1..MaxJobs : (t \in TaskIds) ~> JobOfTaskTerminal(t)

\* C6: no batch job ever has status failed, and the step in which a batch
\* driver ends leaves its job completed, however many items failed.
C6_BatchEndsCompleted ==
    [][/\ \A ref \in 1..Len(heap') :
             IsBatchRecord(heap'[ref]) => heap'[ref].status # "failed"
       /\ \A t \in TaskIds :
             (IsBatchTask(t) /\ tasks[t].pc # "done" /\ tasks'[t].pc = "done")
                 => heap'[tasks'[t].job].status = "completed"]_vars

\* a batch driver has ended with at least one failed item, status completed
C6_Witness ==
    \E t \in TaskIds :
        /\ IsBatchTask(t) /\ tasks[t].pc = "done"
        /\ tasks[t].job # 0
        /\ heap[tasks[t].job].errors # <<>>
        /\ heap[tasks[t].job].status = "completed"

\* C7: whenever a poller reads status failed for a single-file conversion
\* job, the job dict carries the result with its error.
C7_FailedCarriesError ==
    \A id \in JobIds :
        LET job == get_job_status(id) IN
        (~IsBatchRecord(job) /\ job.status = "failed")
            => ("result" \in DOMAIN job /\ ~job.result.success /\ job.result.error # None)

C9_OneTranscoderPerJob ==
    \A t \in TaskIds :
        IsBatchTask(t) =>
            /\ Cardinality({p \in procs : p.owner = t}) <= 1
            /\ \A p \in procs :
                  p.owner = t => (p.item = tasks[t].i /\ tasks[t].pc = "poll")

\* two jobs have a live transcoder at once, one of them for its second item
C9_Witness ==
    \E p \in procs, q \in procs :
        /\ p.owner # q.owner
        /\ IsBatchTask(p.owner) /\ IsBatchTask(q.owner)
        /\ p.state = "alive" /\ q.state = "alive"
        /\ p.item = 1

\* name is <prefix>_<digits> with any extension
NamedPrefixDigits(name, prefix) ==
    /\ Len(name.stem) = Len(prefix) + 1
    /\ SubSeq(name.stem, 1, Len(prefix)) = prefix
    /\ IsDigit(name.stem[Len(name.stem)])

\* the placements of one category, in walk order
PlacedIn(placed, d) ==
    SelectSeq2(placed, {placed[k] : k \in {j \in 1..Len(placed) : placed[j].subdir = d}})

\* the step is a POST /import-v2 that returned 200: its request and response
\* are in last_import', the project as it was before the call is in dirs
ImportedV2 ==
    /\ last_import' # last_import \/ dirs' # dirs
    /\ last_import'.endpoint = "import-v2"
    /\ last_import'.status = 200

\* C10: an /import-v2 call with a non-empty prefix P into a category that
\* holds no file named P_<digits> names the files it places in that
\* category P_0001, P_0002, ... in walk order, each with its own lower-cased
\* extension, independently of the other categories.
C10_PrefixNumbersFromOne ==
    [][\A d \in Subdirs :
          LET req == last_import'.request
              prefix == IF ImportedV2 THEN req.file_prefix ELSE <<>>
              held == ProjectDirs(req.project_name)[d]
              placed == PlacedIn(last_import'.placed, d)
          IN  (ImportedV2 /\ prefix # <<>> /\ ~\E n \in held : NamedPrefixDigits(n, prefix))
                  => \A k \in 1..Len(placed) :
                         placed[k].name = Name(prefix \o <<Format04d(k)>>,
                                               Lower(placed[k].src.ext))]_vars

\* the sequence numbers carried by the <prefix>_<digits> names of a folder
NumbersCarried(folder, prefix) ==
    {IntOfStr(n.stem[Len(n.stem)]) : n \in {m \in folder : NamedPrefixDigits(m, prefix)}}

\* C11: every /import-v2 call with a prefix starts the counter of every
\* category at the largest number of the category's <prefix>_<digits> names
\* plus one (1 when there is none), and never gives a newly placed file a
\* number that a file of the category already carries.
C11_ContinuesFromMaximum ==
    [][ImportedV2 /\ last_import'.request.file_prefix # <<>> =>
          \A d \in Subdirs :
             LET req == last_import'.request
                 carried == NumbersCarried(ProjectDirs(req.project_name)[d], req.file_prefix)
                 placed == PlacedIn(last_import'.placed, d)
             IN  /\ last_import'.start_counters[d] =
                        (IF carried = {} THEN 0 ELSE SetMax(carried)) + 1
                 /\ \A k \in 1..Len(placed) : placed[k].number \notin carried]_vars

\* the second half of C11 alone: no number a file carries is assigned again
NoNumberReused ==
    [][ImportedV2 /\ last_import'.request.file_prefix # <<>> =>
          \A d \in Subdirs :
             LET req == last_import'.request
                 carried == NumbersCarried(ProjectDirs(req.project_name)[d], req.file_prefix)
                 placed == PlacedIn(last_import'.placed, d)
             IN  \A k \in 1..Len(placed) : placed[k].number \notin carried]_vars

\* the step is an import call (either endpoint) that returned 200
Imported ==
    /\ last_import' # last_import \/ dirs' # dirs
    /\ last_import'.status = 200

\* the name the handler computes for a placement before it looks for duplicates
ComputedName(call, placement) ==
    IF call.endpoint = "import-v2"
    THEN PrefixedName(call.request, placement.number, Lower(placement.src.ext), placement.src)
    ELSE placement.src

\* the names of the category folder when the k-th placement of the call is made
FolderBefore(call, held, k) ==
    held[call.placed[k].subdir] \cup
        {call.placed[j].name : j \in {i \in 1..(k - 1) :
                                         call.placed[i].subdir = call.placed[k].subdir}}

ImportedByDate == ImportedV2 /\ last_import'.request.selected_dates # {}

\* the file reaches the classification of the walk
Walked(file) ==
    ~(file.hidden_dir \/ IsHidden(file.name) \/ HasDnxhdMarker(file.name.stem))

IsImage(file) == Lower(file.name.ext) \in (IMAGE_EXTENSIONS \cup RAW_EXTENSIONS)

\* the date bucket of a source file
DateBucket(file) == get_file_date(file, Lower(file.name.ext))

\* the names of a sequence of records, by field
SrcNames(placed) == {placed[k].src : k \in 1..Len(placed)}
FileNames(errors) == {errors[k].file : k \in 1..Len(errors)}

\* C13 as stated: under a date filter only image files whose date bucket is
\* in the set are imported, and every other file of the source tree is
\* skipped, counted as skipped and absent from errors.
C13_OnlySelectedImages ==
    [][ImportedByDate =>
          LET call == last_import'
              dates == call.request.selected_dates
              chosen == {k \in 1..Len(call.source) :
                            /\ IsImage(call.source[k])
                            /\ DateBucket(call.source[k]) \in dates}
          IN  /\ SrcNames(call.placed) \cup FileNames(call.errors)
                     \subseteq {call.source[k].name : k \in chosen}
              /\ call.gopro_queued = 0
              /\ call.skipped_by_date = Len(call.source) - Cardinality(chosen)]_vars

\* the source files a date filter removes: images whose date bucket is
\* known and is not in the set
RemovedByDate(source, dates) ==
    {k \in 1..Len(source) :
        /\ Walked(source[k])
        /\ IsImage(source[k])
        /\ DateBucket(source[k]) # None
        /\ DateBucket(source[k]) \notin dates}

\* seq without the elements at the indices in drop
RECURSIVE Without(_, _, _)
Without(seq, drop, k) ==
    IF k > Len(seq) THEN <<>>
    ELSE (IF k \in drop THEN <<>> ELSE <<seq[k]>>) \o Without(seq, drop, k + 1)

\* C13, amended: the date filter removes exactly the image files (RAW or
\* JPEG category) whose date bucket is known and not in the set; they are
\* counted in skipped_by_date and are neither placed nor in errors; all the
\* other files are handled as by the same request without a date filter.
C13_DateFilterOnImages ==
    [][ImportedByDate =>
          LET call == last_import'
              req == call.request
              removed == RemovedByDate(call.source, req.selected_dates)
              rest == Without(call.source, removed, 1)
              plain == WalkV2(WalkStart(req, ProjectDirs(req.project_name)), rest,
                              [req EXCEPT !.selected_dates = {}])
          IN  /\ call.skipped_by_date = Cardinality(removed)
              /\ \A k \in removed :
                    call.source[k].name \notin SrcNames(call.placed) \cup FileNames(call.errors)
              /\ call.placed = plain.placed
              /\ call.errors = plain.errors
              /\ call.imported = plain.imported
              /\ call.gopro_queued = Len(plain.gopro_files)
              /\ dirs'[req.project_name] = plain.files]_vars

\* a filtered import skipped an image and placed a video and an undated image
C13_Witness ==
    /\ last_import.status = 200 /\ last_import.endpoint = "import-v2"
    /\ last_import.request.selected_dates # {}
    /\ last_import.skipped_by_date = 1
    /\ Clip.name \in SrcNames(last_import.placed)
    /\ NoDateRaw.name \in SrcNames(last_import.placed)

\* the source files /import-v2 detects as GoPro videos, by index in walk order
DetectedGoPro(source) ==
    {k \in 1..Len(source) :
        /\ Walked(source[k])
        /\ Lower(source[k].name.ext) \in VIDEO_EXTENSIONS
        /\ is_gopro_file(source[k])}

\* C14: in an /import-v2 call with convert_gopro every file detected as a
\* GoPro video is neither placed nor counted by the call but queued; a job
\* is created exactly when the queue is not empty, with total = length of
\* the queue, under the id returned as conversion_job_id; without a job the
\* registry is unchanged and the returned id is null.
C14_GoProQueuedNotCopied ==
    [][ImportedV2 /\ last_import'.request.convert_gopro =>
          LET call == last_import'
              gopro == DetectedGoPro(call.source)
              queue == Without(call.source, (1..Len(call.source)) \ gopro, 1)
              id == call.conversion_job_id
          IN  /\ \A k \in gopro :
                    call.source[k].name \notin SrcNames(call.placed) \cup FileNames(call.errors)
              /\ call.gopro_queued = Cardinality(gopro)
              /\ \A d \in Subdirs : call.imported[d] = Len(PlacedIn(call.placed, d))
              /\ (id # NoJobId) <=> (gopro # {})
              /\ IF id # NoJobId
                 THEN /\ Inserted(id)
                      /\ NextJobStatus(id).status = "queued"
                      /\ NextJobStatus(id).total = Len(queue)
                      /\ Len(tasks') = Len(tasks) + 1
                      /\ tasks'[Len(tasks')].job_id = id
                      /\ tasks'[Len(tasks')].items = [k \in 1..Len(queue) |-> queue[k].name]
                 ELSE UNCHANGED <<active_jobs, heap, tasks>>]_vars

\* an import queued one GoPro clip under a job and placed the other video
C14_Witness ==
    /\ last_import.status = 200 /\ last_import.endpoint = "import-v2"
    /\ last_import.request.convert_gopro
    /\ last_import.gopro_queued = 1
    /\ last_import.imported["Video"] = 1
    /\ last_import.conversion_job_id \in DOMAIN active_jobs
    /\ get_job_status(last_import.conversion_job_id).total = 1

\* C15: an import (either endpoint, whatever its conversion flags) of a
\* source tree that exists and is empty returns zero counts, no errors and
\* a null job id, and leaves the registry as it was.
C15_EmptySourceNoJob ==
    [][Imported /\ last_import'.source = <<>> =>
          /\ \A d \in Subdirs : last_import'.imported[d] = 0
          /\ last_import'.errors = <<>>
          /\ last_import'.conversion_job_id = NoJobId
          /\ UNCHANGED <<active_jobs, heap, tasks>>]_vars

\* the step is an import request that was answered 404
RejectedNotFound ==
    /\ last_import' # last_import
    /\ last_import'.status = 404

\* C16: an import request (either endpoint) for a source path that does
\* not exist is answered 404 and touches nothing: no project or category
\* folder is created, no metadata is written, no file is placed and the
\* registry gets no job.
C16_MissingSourceTouchesNothing ==
    [][RejectedNotFound =>
          /\ UNCHANGED <<dirs, metadata, active_jobs, heap, tasks>>
          /\ last_import'.placed = <<>>
          /\ last_import'.conversion_job_id = NoJobId]_vars

\* a request for a new project was answered 404 and the project does not exist
C16_Witness ==
    /\ last_import.status = 404
    /\ last_import.request.project_name \notin DOMAIN dirs
    /\ last_import.request.project_name \notin DOMAIN metadata
    /\ active_jobs = <<>>

\* C17: a request that names an unknown preset is rejected before any side
\* effect: an import with an unknown conversion_preset is not answered 200
\* and creates no folder, writes no metadata, places no file and starts no
\* conversion; /convert never inserts a job for an unknown preset.
C17_UnknownPresetRejected ==
    [][/\ ((last_import' # last_import \/ dirs' # dirs)
            /\ ~IsPresetValue(last_import'.request.conversion_preset))
           => /\ last_import'.status # 200
              /\ UNCHANGED <<dirs, metadata, active_jobs, heap, tasks>>
       /\ \A id \in DOMAIN active_jobs' :
             (Inserted(id) /\ ~IsBatchRecord(NextJobStatus(id)))
                 => IsPresetValue(NextJobStatus(id).preset)]_vars

\* the k-th file of the call's source tree reaches the copy (or move)
ReachesCopy(call, k) ==
    LET file == call.source[k] IN
    IF call.endpoint = "import-v2"
    THEN /\ Walked(file)
         /\ call.request.selected_dates # {}
                => k \notin RemovedByDate(call.source, call.request.selected_dates)
         /\ call.request.convert_gopro => k \notin DetectedGoPro(call.source)
    ELSE ~(file.hidden_dir \/ IsHidden(file.name))

\* the task's driver starts or resumes an iteration in this step
EntersLoop(t) ==
    /\ tasks'[t].pc = "loop"
    /\ tasks[t].pc \notin {"loop", "pending", "list"}

\* C18: a failure on one file never aborts the batch.  In an import the
\* errors list holds, in walk order, exactly one record for each file whose
\* copy failed, and every other file that reaches the copy is placed, the
\* ones after a failure included.  In a batch conversion job the loop index
\* only moves to the next item, it moves after every attempt whatever its
\* result, and the driver ends only when the index has passed the last item.
C18_FailureNeverAborts ==
    [][/\ Imported =>
             LET call == last_import'
                 copied == {k \in 1..Len(call.source) : ReachesCopy(call, k)}
                 failed == {k \in copied : call.source[k].fails}
                 lost == Without(call.source, (1..Len(call.source)) \ failed, 1)
                 kept == Without(call.source, (1..Len(call.source)) \ (copied \ failed), 1)
             IN  /\ Len(call.errors) = Len(lost)
                 /\ \A j \in 1..Len(lost) : call.errors[j].file = lost[j].name
                 /\ Len(call.placed) = Len(kept)
                 /\ \A j \in 1..Len(kept) : call.placed[j].src = kept[j].name
       /\ \A t \in TaskIds :
             IsBatchTask(t) =>
                 /\ tasks'[t].i \in {tasks[t].i, tasks[t].i + 1}
                 /\ EntersLoop(t) => tasks'[t].i = tasks[t].i + 1
                 /\ (tasks'[t].pc = "done" /\ tasks[t].pc = "loop")
                        => tasks[t].i = Len(tasks[t].items)
                 /\ (tasks[t].pc = "loop" /\ tasks[t].i < Len(tasks[t].items))
                        => tasks'[t].pc # "done"]_vars

\* a GoPro job is over whose first clip failed and whose second clip was
\* converted, after an import whose first file could not be copied
C18_Witness ==
    /\ last_import.status = 200
    /\ Len(last_import.errors) = 1
    /\ last_import.gopro_queued = 1
    /\ \E t \in TaskIds :
          /\ tasks[t].kind = "gopro" /\ tasks[t].pc = "done"
          /\ Len(tasks[t].items) = 2
          /\ heap[tasks[t].job].completed = 1
          /\ Len(heap[tasks[t].job].errors) = 1
          /\ heap[tasks[t].job].errors[1].file = tasks[t].items[1]

\* C19: within one convert_video call every value the callback gets from the
\* polling loop, that is while the child has not been seen to exit, lies in
\* [0, 95]; the callback gets 100 only in the step that leaves the loop
\* with exit status 0, once per call, and a call that ends with a non-zero
\* status makes no further callback.
C19_ProgressCappedUntilExit ==
    [][\A t \in TaskIds :
          LET before == tasks[t]
              after == tasks'[t]
              polled == /\ before.pc = "poll" /\ after.pc = "poll"
                        /\ after.elapsed # before.elapsed
              returned == before.pc = "poll" /\ after.pc = "ret"
          IN  /\ polled => /\ after.cb # NoCall
                           /\ RLeq(R(0, 1), after.cb)
                           /\ RLeq(after.cb, R(ProgressCap, 1))
              /\ (after.cb # before.cb /\ after.cb # NoCall /\ ~polled)
                    => returned /\ after.cb = R(FinalProgress, 1)
              /\ after.cb = R(FinalProgress, 1)
                    => \/ /\ returned
                          /\ ProcessOf(t).state = "exited"
                          /\ ProcessOf(t).returncode = 0
                       \/ after.cb = before.cb /\ ~polled
              /\ (returned /\ ProcessOf(t).returncode # 0)
                    => after.cb = before.cb /\ after.cb # R(FinalProgress, 1)]_vars

\* one call is held at the cap by its polling loop while another call has
\* made its final callback
C19_Witness ==
    \E t, u \in TaskIds :
        /\ tasks[t].pc = "poll" /\ tasks[t].cb = R(ProgressCap, 1)
        /\ tasks[u].pc = "ret" /\ tasks[u].cb = R(FinalProgress, 1)

\* C20: convert_video never raises past its boundary: no call made by a job
\* driver ends with an exception, so no driver is ever left without a
\* result for the item it passed.
C20_ConvertVideoNeverRaises ==
    \A t \in TaskIds : tasks[t].pc # "raised"

\* ------------------------------------- the services, called on their own
\* the durations a probe reports (0: none could be read, or the file says 0)
ServiceDurations == (0..MaxDuration) \cup {60}

\* estimate_conversion_time(d, preset) and the estimate convert_video uses
\* for the same probe
Estimate ==
    /\ \E d \in ServiceDurations, preset \in DOMAIN PRESETS :
         last_call' = [op |-> "estimate", duration |-> d, preset |-> preset,
                       estimate |-> estimate_conversion_time(d, preset),
                       estimated_duration |-> EstimatedDuration(d, preset)]
    /\ UNCHANGED <<now, active_jobs, heap, tasks, procs, dirs, metadata, last_import>>

\* variant: the extension is looked up as it is written
get_file_type_as_written(name) ==
    IF name.ext \in IMAGE_EXTENSIONS THEN "image"
    ELSE IF name.ext \in RAW_EXTENSIONS THEN "raw"
    ELSE IF name.ext \in VIDEO_EXTENSIONS THEN "video"
    ELSE "other"

\* files.py get_file_type: ext = os.path.splitext(filename)[1].lower()
get_file_type(name) ==
    LET ext == Lower(name.ext) IN
    IF ext \in IMAGE_EXTENSIONS THEN "image"
    ELSE IF ext \in RAW_EXTENSIONS THEN "raw"
    ELSE IF ext \in VIDEO_EXTENSIONS THEN "video"
    ELSE "other"

\* the list of /scan a file is appended to
ScanCategory(file) ==
    LET ext == Lower(file.name.ext) IN
    IF ext \in RAW_EXTENSIONS THEN "raw"
    ELSE IF ext \in IMAGE_EXTENSIONS THEN "jpeg"
    ELSE IF ext \in VIDEO_EXTENSIONS
         THEN (IF is_gopro_file(file) THEN "gopro" ELSE "video")
    ELSE "other"

\* the extensions of the file names given to the classifiers
ServiceExtensions ==
    IMAGE_EXTENSIONS \cup RAW_EXTENSIONS \cup VIDEO_EXTENSIONS \cup
    {".CR2", ".NEF", ".JPG", ".PNG", ".MP4", ".MOV", ".TXT", "", ".txt", ".xmp"}

\* the files given to the classifiers: x<ext>, GH010001<ext>, and x<ext>
\* with a GoPro tag in its metadata
ServiceFiles ==
    {SourceFile(Name(<<stem>>, ext), FALSE, tag, "2024-01-15", None, FALSE) :
        stem \in {<<"x">>, <<"GH">> \o Digits6("0", "1")}, ext \in ServiceExtensions,
        tag \in BOOLEAN}

\* one file name is classified by get_file_type, by /scan, by /import and
\* by /import-v2
Classify ==
    /\ \E file \in ServiceFiles :
         last_call' = [op |-> "classify", file |-> file,
                       file_type |-> get_file_type(file.name),
                       scan |-> ScanCategory(file),
                       import |-> DestSubdirV2(Lower(file.name.ext))]
    /\ UNCHANGED <<now, active_jobs, heap, tasks, procs, dirs, metadata, last_import>>

\* what get_video_info meets: no ffmpeg or ffprobe, a probe that times out
\* or exits non-zero (all three give None), or the format tags it reads
ProbeOutcomes ==
    {"no ffprobe", "timeout", "exit 1", "no tags", "Lavf encoder", "GoPro encoder",
     "GoPro handler_name"}

\* "GoPro" in tags.get("encoder", "") or "GoPro" in tags.get("handler_name", "")
TagOf(probe) == probe \in {"GoPro encoder", "GoPro handler_name"}

\* GH010001.MP4, GOPR0001.MP4, GP010001.MP4, GX010001.MP4, gh010001.mp4,
\* video.mp4, DSC_0001.MOV, GH01001.MP4, GH010001.MOV, GOPR010001.MP4
GoProNames ==
    {Name(<< <<"GH">> \o Digits6("0", "1") >>, ".MP4"),
     Name(<< <<"GOPR", "0", "0", "0", "1">> >>, ".MP4"),
     Name(<< <<"GP">> \o Digits6("0", "1") >>, ".MP4"),
     Name(<< <<"GX">> \o Digits6("0", "1") >>, ".MP4"),
     Name(<< <<"gh">> \o Digits6("0", "1") >>, ".mp4")}
OtherNames ==
    {Name(<< <<"video">> >>, ".mp4"),
     Name(<< <<"DSC">>, Format04d(1) >>, ".MOV"),
     Name(<< <<"GH", "0", "1", "0", "0", "1">> >>, ".MP4"),
     Name(<< <<"GH">> \o Digits6("0", "1") >>, ".MOV"),
     Name(<< <<"GOPR">> \o Digits6("0", "1") >>, ".MP4"),
     Name(<< <<"GH">> \o Digits6("0", "1"), <<"1">> >>, ".MP4")}

\* is_gopro_file(filepath) for one name and one outcome of the probe
IsGoPro ==
    /\ \E name \in GoProNames \cup OtherNames, probe \in ProbeOutcomes :
         last_call' = [op |-> "is_gopro", name |-> name, probe |-> probe,
                       result |-> is_gopro_file(SourceFile(name, FALSE, TagOf(probe),
                                                           "2024-01-15", None, FALSE))]
    /\ UNCHANGED <<now, active_jobs, heap, tasks, procs, dirs, metadata, last_import>>

NextServices == Estimate \/ Classify \/ IsGoPro

SpecServices == InitImport /\ [][NextServices]_vars

\* C21: for every preset of the table and every positive duration d the
\* estimate times the preset's speed is d (60 s with copy: 6 s); every speed
\* is positive; convert_video uses that estimate for a positive duration and
\* 60 s for a missing or zero one, so the divisor of the progress formula is
\* never zero.
C21_EstimateIsDurationOverSpeed ==
    /\ \A p \in DOMAIN PRESETS : PRESETS[p].speed100 > 0
    /\ last_call.op = "estimate" =>
          LET d == last_call.duration
              est == last_call.estimate
              used == last_call.estimated_duration
          IN  /\ d > 0 => /\ est[1] * PRESETS[last_call.preset].speed100 = d * 100 * est[2]
                          /\ used = est
              /\ (d = 60 /\ last_call.preset = "copy") => est = <<6, 1>>
              /\ d = 0 => used = <<DefaultEstimate, 1>>
              /\ used[1] > 0

\* a 60 s clip with the copy preset: 6 s
C21_Witness ==
    /\ last_call.op = "estimate"
    /\ last_call.duration = 60 /\ last_call.preset = "copy"
    /\ last_call.estimated_duration = <<6, 1>>

\* ------------------------------------------------ /scan and /date-previews
\* notes.TXT, a JPEG below a hidden directory, a clip whose metadata names
\* a GoPro encoder
Notes == SourceFile(Name(<<Tok("notes")>>, ".TXT"), FALSE, FALSE, "2024-01-15", None, FALSE)
Nested == SourceFile(Name(<<Tok("IMG"), Format04d(9)>>, ".JPG"),
                     TRUE, FALSE, "2024-01-15", None, FALSE)
TaggedClip == SourceFile(Name(<<Tok("dive")>>, ".MP4"), FALSE, TRUE, "2024-01-16", None, FALSE)

ScanPool == {Jpg1, Clip, DsStore, Raw1, GH1, Notes, Nested, TaggedClip}

Range(seq) == {seq[k] : k \in 1..Len(seq)}

\* the orders in which os.walk can yield up to n distinct files of the pool
RECURSIVE Arrangements(_, _)
Arrangements(pool, n) ==
    IF n = 0 THEN {<<>>}
    ELSE LET shorter == Arrangements(pool, n - 1)
             longest == {q \in shorter : Len(q) = n - 1}
             longer == {Append(q, x) : q \in longest, x \in pool}
         IN  shorter \cup {q \in longer : q[n] \notin Range(SubSeq(q, 1, n - 1))}

ScanTrees == Arrangements(ScanPool, MaxScan)

\* IMG_0002.JPG and IMG_0003.PNG, both without EXIF date
Jpg2 == SourceFile(Name(<<Tok("IMG"), Format04d(2)>>, ".JPG"),
                   FALSE, FALSE, "2024-01-15", None, FALSE)
Png1 == SourceFile(Name(<<Tok("IMG"), Format04d(3)>>, ".PNG"),
                   FALSE, FALSE, "2024-01-15", None, FALSE)

PreviewPool == {Jpg1, Jpg2, Png1, Raw1, Raw2, NoDateRaw, Clip, DsStore}
PreviewTrees == Arrangements(PreviewPool, MaxPreview)

\* the keys of the files dict of /scan
ScanCategories == {"raw", "jpeg", "video", "gopro", "other"}

\* variant: only the files of hidden directories are left out
ScanSkipsDirsOnly(file) == file.hidden_dir

\* dirs[:] = [d for d in dirs if not d.startswith(".")] and
\* "if filename.startswith('.'): continue"
ScanSkips(file) == file.hidden_dir \/ IsHidden(file.name)

\* the walk of /scan (file sizes are left out)
RECURSIVE ScanWalk(_, _)
ScanWalk(files, tree) ==
    IF tree = <<>> THEN files
    ELSE LET file == Head(tree)
             listed == IF ScanSkips(file) THEN files
                       ELSE [files EXCEPT ![ScanCategory(file)] = Append(@, file.name)]
         IN  ScanWalk(listed, Tail(tree))

\* variant: a path that is not a directory is walked
PathStatusAnyPath(path_exists, is_dir) == IF ~path_exists THEN 404 ELSE 200

\* the two checks both handlers start with
PathStatus(path_exists, is_dir) ==
    IF ~path_exists THEN 404
    ELSE IF ~is_dir THEN 400
    ELSE 200

\* POST /scan
scan_folder(path_exists, is_dir, tree) ==
    /\ LET status == PathStatus(path_exists, is_dir)
           files == ScanWalk([c \in ScanCategories |-> <<>>], tree)
       IN  last_call' =
             IF status # 200
             THEN [op |-> "scan", status |-> status, path_exists |-> path_exists, is_dir |-> is_dir, source |-> tree]
             ELSE [op |-> "scan", status |-> 200, path_exists |-> path_exists, is_dir |-> is_dir, source |-> tree,
                   files |-> files,
                   counts |-> [c \in ScanCategories \cup {"total"} |->
                                  IF c = "total"
                                  THEN SumOver([k \in ScanCategories |-> Len(files[k])],
                                               ScanCategories)
                                  ELSE Len(files[c])]]
    /\ UNCHANGED <<now, active_jobs, heap, tasks, procs, dirs, metadata, last_import>>

\* the date strings of the inputs in the order of str comparison
KnownDates == <<"2024-01-15", "2024-01-16">>
DateRank(date) == CHOOSE k \in 1..Len(KnownDates) : KnownDates[k] = date

\* sorted(files_by_date.keys(), reverse=True)
RECURSIVE SortedReverse(_)
SortedReverse(dates) ==
    IF dates = {} THEN <<>>
    ELSE LET last == CHOOSE d \in dates : \A e \in dates : DateRank(e) <= DateRank(d)
         IN  <<last>> \o SortedReverse(dates \ {last})

\* the file is appended to files_by_date
Previewed(file) ==
    /\ ~ScanSkips(file)
    /\ Lower(file.name.ext) \in IMAGE_EXTENSIONS \cup RAW_EXTENSIONS
    /\ file.mtime # None

\* files_by_date[date_str], in walk order
RECURSIVE FilesOfDate(_, _)
FilesOfDate(tree, date) ==
    IF tree = <<>> THEN <<>>
    ELSE LET file == Head(tree)
             ext == Lower(file.name.ext)
         IN  (IF Previewed(file) /\ get_file_date(file, ext) = date
              THEN <<[filename |-> file.name, ext |-> ext,
                      is_raw |-> ext \in RAW_EXTENSIONS]>>
              ELSE <<>>) \o FilesOfDate(Tail(tree), date)

\* the keys of files_by_date
PreviewDates(tree) ==
    {get_file_date(tree[k], Lower(tree[k].name.ext)) : k \in {j \in 1..Len(tree) : Previewed(tree[j])}}

RECURSIVE Filter(_, _)
Filter(files, raw) ==
    IF files = <<>> THEN <<>>
    ELSE (IF Head(files).is_raw = raw THEN <<Head(files)>> ELSE <<>>) \o Filter(Tail(files), raw)

Min(a, b) == IF a <= b THEN a ELSE b

\* random.sample(population, k): k distinct elements in any order
Sample(population, k) == {q \in Arrangements(Range(population), k) : Len(q) = k}

\* variant: the RAW files are sampled as well, whatever the JPEGs gave
RawShareAlways(taken, raws) == Min(1, Len(raws))

\* min(3 - len(samples), len(raws)) under "if len(samples) < 3 and raws"
RawShare(taken, raws) == IF taken < 3 THEN Min(3 - taken, Len(raws)) ELSE 0

\* the entries /date-previews can build for one date
PreviewEntries(tree, date) ==
    LET files == FilesOfDate(tree, date)
        jpegs == Filter(files, FALSE)
        raws == Filter(files, TRUE)
        first == Sample(jpegs, Min(3, Len(jpegs)))
    IN  {[date |-> date, total_count |-> Len(files), jpeg_count |-> Len(jpegs),
          raw_count |-> Len(raws), samples |-> j \o r] :
            j \in first, r \in Sample(raws, RawShare(Min(3, Len(jpegs)), raws))}

\* the lists of previews it can return for the dates, in their order
RECURSIVE PreviewLists(_, _)
PreviewLists(tree, dates) ==
    IF dates = <<>> THEN {<<>>}
    ELSE {<<e>> \o rest : e \in PreviewEntries(tree, Head(dates)),
                          rest \in PreviewLists(tree, Tail(dates))}

\* POST /date-previews
get_date_previews(path_exists, is_dir, tree) ==
    /\ LET status == PathStatus(path_exists, is_dir) IN
       IF status # 200
       THEN last_call' = [op |-> "date-previews", status |-> status, path_exists |-> path_exists, is_dir |-> is_dir,
                          source |-> tree]
       ELSE \E previews \in PreviewLists(tree, SortedReverse(PreviewDates(tree))) :
              last_call' = [op |-> "date-previews", status |-> 200, path_exists |-> path_exists, is_dir |-> is_dir,
                            source |-> tree, dates |-> previews,
                            total_dates |-> Len(previews),
                            total_files |-> SumOver([k \in 1..Len(previews) |->
                                                        previews[k].total_count],
                                                    1..Len(previews))]
    /\ UNCHANGED <<now, active_jobs, heap, tasks, procs, dirs, metadata, last_import>>

\* the tree below the path the requests of a behaviour name
InitScan ==
    /\ now = 0
    /\ active_jobs = <<>>
    /\ heap = <<>>
    /\ tasks = <<>>
    /\ procs = {}
    /\ dirs = JobLibrary
    /\ metadata = [p \in JobProjects |-> DefaultMetadata]
    /\ last_import = NoImport
    /\ \E tree \in ScanTrees \cup PreviewTrees : last_call = [op |-> None, source |-> tree]

\* the path is a directory
Scan == scan_folder(TRUE, TRUE, last_call.source)

\* the path is missing
ScanMissing == scan_folder(FALSE, FALSE, last_call.source)

\* the path is a file
ScanNotADirectory == scan_folder(TRUE, FALSE, last_call.source)

\* the same three cases of POST /date-previews
DatePreviews == get_date_previews(TRUE, TRUE, last_call.source)
DatePreviewsMissing == get_date_previews(FALSE, FALSE, last_call.source)
DatePreviewsNotADirectory == get_date_previews(TRUE, FALSE, last_call.source)

NextScan ==
    \/ Scan \/ ScanMissing \/ ScanNotADirectory
    \/ DatePreviews \/ DatePreviewsMissing \/ DatePreviewsNotADirectory

SpecScan == InitScan /\ [][NextScan]_vars

\* the files of the tree that /scan has to list
Visible(tree) ==
    {k \in 1..Len(tree) :
        ~tree[k].hidden_dir /\ ~IsHidden(tree[k].name)}

\* C22: /scan lists every file that is neither hidden nor below a hidden
\* directory, each in exactly one category, and no other file; counts.total
\* is the number of listed files and the sum of the category counts, and
\* every category count is the length of its list.
C22_ScanListsVisibleOnce ==
    (last_call.op = "scan" /\ last_call.status = 200) =>
        LET tree == last_call.source
            files == last_call.files
            counts == last_call.counts
        IN  /\ \A k \in Visible(tree) :
                  Cardinality({c \in ScanCategories : tree[k].name \in Range(files[c])}) = 1
            /\ \A k \in (1..Len(tree)) \ Visible(tree) :
                  \A c \in ScanCategories : tree[k].name \notin Range(files[c])
            /\ \A c \in ScanCategories : counts[c] = Len(files[c])
            /\ counts.total = Cardinality(Visible(tree))
            /\ counts.total = SumOver([c \in ScanCategories |-> counts[c]], ScanCategories)

\* one .jpg, one .mp4 and one dotfile: jpeg 1, video 1, total 2
C22_Witness ==
    /\ last_call.op = "scan" /\ last_call.status = 200
    /\ Range(last_call.source) = {Jpg1, Clip, DsStore}
    /\ last_call.counts.jpeg = 1 /\ last_call.counts.video = 1
    /\ last_call.counts.total = 2

\* a /scan or /date-previews request is answered in this step
Scanned ==
    /\ last_call' # last_call
    /\ last_call'.op \in {"scan", "date-previews"}

\* C23: /scan and /date-previews answer 404 when the root does not exist
\* and 400 when it exists but is not a directory; the answer then carries
\* no listing, and neither the library nor the metadata nor the job registry
\* is changed by any answer.
C23_BadRootRejected ==
    [][Scanned =>
          LET call == last_call' IN
          /\ ~call.path_exists => call.status = 404
          /\ (call.path_exists /\ ~call.is_dir) => call.status = 400
          /\ (call.path_exists /\ call.is_dir) => call.status = 200
          /\ call.status # 200 => DOMAIN call \cap {"files", "counts", "dates"} = {}
          /\ UNCHANGED <<now, active_jobs, heap, tasks, procs, dirs, metadata, last_import>>]_vars

\* /date-previews was asked for a path that is a file
C23_Witness ==
    /\ last_call.op = "date-previews"
    /\ last_call.path_exists /\ ~last_call.is_dir
    /\ last_call.status = 400

\* a /date-previews request for a directory is answered in this step
Previewing ==
    /\ last_call' # last_call
    /\ last_call'.op = "date-previews"
    /\ last_call'.status = 200

\* the files of the tree that belong to the date bucket
InBucket(tree, date) ==
    {k \in 1..Len(tree) :
        /\ ~tree[k].hidden_dir /\ ~IsHidden(tree[k].name)
        /\ Lower(tree[k].name.ext) \in IMAGE_EXTENSIONS \cup RAW_EXTENSIONS
        /\ get_file_date(tree[k], Lower(tree[k].name.ext)) = date}

\* C28: /date-previews returns one entry per date bucket of the tree, in
\* descending date order; in every entry total_count = jpeg_count +
\* raw_count is the size of the bucket, samples holds min(3, total_count)
\* distinct files of the bucket, and a RAW file is among them only if the
\* bucket has fewer than 3 non-RAW files; the library is left as it was.
C28_DatePreviews ==
    [][Previewing =>
          LET call == last_call'
              tree == call.source
              n == Len(call.dates)
          IN  /\ {call.dates[k].date : k \in 1..n} = PreviewDates(tree)
              /\ \A i, j \in 1..n :
                    i < j => DateRank(call.dates[i].date) > DateRank(call.dates[j].date)
              /\ call.total_dates = n
              /\ \A k \in 1..n :
                    LET entry == call.dates[k]
                        bucket == InBucket(tree, entry.date)
                        m == Len(entry.samples)
                    IN  /\ entry.total_count = entry.jpeg_count + entry.raw_count
                        /\ entry.total_count = Cardinality(bucket)
                        /\ entry.raw_count =
                              Cardinality({b \in bucket :
                                  Lower(tree[b].name.ext) \in RAW_EXTENSIONS})
                        /\ m = Min(3, entry.total_count)
                        /\ \A a, b \in 1..m :
                              a # b => entry.samples[a].filename # entry.samples[b].filename
                        /\ \A a \in 1..m :
                              \E b \in bucket : tree[b].name = entry.samples[a].filename
                        /\ (\E a \in 1..m : entry.samples[a].is_raw) => entry.jpeg_count < 3
              /\ UNCHANGED <<dirs, metadata>>]_vars

\* a bucket of three non-RAW files and one RAW file was sampled
C28_Witness ==
    /\ last_call.op = "date-previews" /\ last_call.status = 200
    /\ \E k \in 1..Len(last_call.dates) :
          /\ last_call.dates[k].jpeg_count = 3
          /\ last_call.dates[k].raw_count = 1
          /\ Len(last_call.dates[k].samples) = 3

\* the category names of get_file_type for the lists of /scan (GoPro clips
\* are videos) and for the category folders of the imports
TypeOfScanList ==
    [c \in ScanCategories |->
        CASE c = "raw" -> "raw" [] c = "jpeg" -> "image" [] c = "other" -> "other"
          [] OTHER -> "video"]
TypeOfSubdir ==
    [d \in Subdirs |->
        CASE d = "RAW" -> "raw" [] d = "JPEG" -> "image" [] d = "Video" -> "video"
          [] OTHER -> "other"]

\* C24: classification by extension is total and case-insensitive: every
\* name gets one of raw, image, video, other, other exactly when its
\* lower-cased extension is in none of the three sets; the sets are pairwise
\* disjoint; get_file_type, /scan and the two imports give the same name the
\* same category.
C24_ClassificationAgrees ==
    /\ IMAGE_EXTENSIONS \cap RAW_EXTENSIONS = {}
    /\ IMAGE_EXTENSIONS \cap VIDEO_EXTENSIONS = {}
    /\ RAW_EXTENSIONS \cap VIDEO_EXTENSIONS = {}
    /\ last_call.op = "classify" =>
          LET name == last_call.file.name
              ext == Lower(name.ext)
              type == last_call.file_type
          IN  /\ type \in {"raw", "image", "video", "other"}
              /\ type = "raw" <=> ext \in RAW_EXTENSIONS
              /\ type = "image" <=> ext \in IMAGE_EXTENSIONS
              /\ type = "video" <=> ext \in VIDEO_EXTENSIONS
              /\ type = get_file_type(Name(name.stem, ext))
              /\ type = get_file_type(Name(name.stem, Upper(ext)))
              /\ TypeOfScanList[last_call.scan] = type
              /\ TypeOfSubdir[last_call.import] = type

\* x.CR2 is a RAW file for all of them
C24_Witness ==
    /\ last_call.op = "classify"
    /\ last_call.file.name.ext = ".CR2"
    /\ last_call.file_type = "raw"
    /\ last_call.scan = "raw"
    /\ last_call.import = "RAW"

\* C25: is_gopro_file is true for every name of the four patterns (GH, GP
\* or GX and 6 digits, GOPR and 4 digits, then .MP4, in any case) whatever
\* the probe gives; for every other name it is true exactly when the probe
\* returned tags whose encoder or handler_name contains "GoPro", and false
\* when the probe is unavailable or fails.
C25_GoProDetection ==
    last_call.op = "is_gopro" =>
        /\ last_call.result \in BOOLEAN
        /\ last_call.name \in GoProNames => last_call.result
        /\ last_call.name \in OtherNames =>
              (last_call.result <=>
                  last_call.probe \in {"GoPro encoder", "GoPro handler_name"})
        /\ (last_call.name \in OtherNames
              /\ last_call.probe \in {"no ffprobe", "timeout", "exit 1"})
              => ~last_call.result

\* GX010001.MP4 is a GoPro file although nothing can be probed
C25_Witness ==
    /\ last_call.op = "is_gopro"
    /\ last_call.name = Name(<< <<"GX">> \o Digits6("0", "1") >>, ".MP4")
    /\ last_call.probe = "no ffprobe"
    /\ last_call.result

\* GET /jobs/{job_id}: 404 for an id that is not a key, else the dict
JobResponse(job_id) ==
    IF job_id \notin DOMAIN active_jobs THEN [status |-> 404]
    ELSE [status |-> 200, job |-> get_job_status(job_id)]

\* GET /jobs: the dicts the registry holds (by reference)
list_jobs == {active_jobs[id] : id \in DOMAIN active_jobs}

\* the ids a caller can ask for
AllJobIds ==
    {JobId(prefix, project, stamp) :
        prefix \in {"gopro", "convert"}, project \in JobProjects \cup {None},
        stamp \in 0..MaxClock}

\* C26: GET /jobs/{id} answers 404 exactly for the ids that are not keys of
\* the registry; no step removes a key; and GET /jobs returns every job
\* that was ever created.
C26_JobsStayListed ==
    [][/\ \A id \in AllJobIds :
             JobResponse(id).status = 404 <=> id \notin DOMAIN active_jobs
       /\ \A id \in DOMAIN active_jobs : id \in DOMAIN active_jobs'
       /\ \A ref \in 1..Len(heap') : ref \in list_jobs']_vars

\* the GoPro driver of task t records the outcome of an item in this step
Recorded(t) ==
    /\ tasks[t].kind = "gopro"
    /\ tasks[t].pc = "ret" /\ tasks'[t].pc = "loop"

\* C27: in a GoPro job run with delete_originals an original is deleted
\* only in the step that records the success of its own conversion; the
\* step that records a failure deletes nothing; and whether or not the
\* delete worked, the step that records a success adds 1 to completed,
\* leaves errors as they are and goes on to the next item.
C27_DeleteOnlyAfterSuccess ==
    [][\A t \in TaskIds :
          LET task == tasks[t]
              job == heap[task.job]
              after == heap'[task.job]
          IN  /\ tasks'[t].removed # task.removed
                    => /\ Recorded(t) /\ task.delete_originals /\ task.result = "ok"
                       /\ tasks'[t].removed = task.removed \cup {task.items[task.i + 1]}
              /\ (Recorded(t) /\ task.result # "ok") => tasks'[t].removed = task.removed
              /\ (Recorded(t) /\ task.result = "ok")
                    => /\ after.completed = job.completed + 1
                       /\ after.errors = job.errors
                       /\ tasks'[t].i = task.i + 1]_vars

\* a job of two clips is over: the first original could not be deleted, the
\* second was, both count as completed and there is no error
C27_Witness ==
    \E t \in TaskIds :
        /\ tasks[t].kind = "gopro" /\ tasks[t].delete_originals
        /\ tasks[t].pc = "done" /\ Len(tasks[t].items) = 2
        /\ tasks[t].removed = {tasks[t].items[2]}
        /\ heap[tasks[t].job].completed = 2
        /\ heap[tasks[t].job].errors = <<>>

\* ------------------------------------------------- culling (projects.py)
\* is_valid_project: the project directory exists and holds at least one of
\* the category subdirectories (a project of the library holds all four)
is_valid_project(project) == project \in DOMAIN dirs

\* the names the culling requests use
CullJpg == Name(<<Tok("IMG"), Format04d(1)>>, ".JPG")
CullJpg2 == Name(<<Tok("IMG"), Format04d(2)>>, ".JPG")
CullRaw == Name(<<Tok("IMG"), Format04d(1)>>, ".CR2")
GoneJpg == Name(<<Tok("gone")>>, ".JPG")
CullNames == {CullJpg, CullJpg2, CullRaw, GoneJpg}

\* the projects the requests name: p1 exists, p2 does not
CullProjects == JobProjects \cup {"p2"}

\* the project on disk: as two imports left it, with a second copy of
\* IMG_0001.JPG that its owner keeps in Other, or empty
CullLibraries ==
    {[EmptyProject EXCEPT !["RAW"] = {CullRaw}, !["JPEG"] = {CullJpg, CullJpg2}],
     [EmptyProject EXCEPT !["JPEG"] = {CullJpg, CullJpg2}, !["Other"] = {CullJpg}],
     EmptyProject}

\* POST /{name}/cull
cull_file(project, filename) ==
    /\ IF ~is_valid_project(project)
       THEN /\ last_call' = [op |-> "cull", project |-> project, status |-> 404]
            /\ UNCHANGED metadata
       ELSE /\ metadata' = SaveMetadata(project,
                               [LoadMetadata(project) EXCEPT
                                   !.culled_files = @ \cup {filename}])
            /\ last_call' = [op |-> "cull", project |-> project, status |-> 200,
                             filename |-> filename]
    /\ UNCHANGED <<now, active_jobs, heap, tasks, procs, dirs, last_import>>

\* POST /{name}/keep
keep_file(project, filename) ==
    /\ IF ~is_valid_project(project)
       THEN /\ last_call' = [op |-> "keep", project |-> project, status |-> 404]
            /\ UNCHANGED metadata
       ELSE /\ metadata' = SaveMetadata(project,
                               [LoadMetadata(project) EXCEPT
                                   !.culled_files = @ \ {filename}])
            /\ last_call' = [op |-> "keep", project |-> project, status |-> 200,
                             filename |-> filename]
    /\ UNCHANGED <<now, active_jobs, heap, tasks, procs, dirs, last_import>>

\* the inner loop of delete_culled: the position in PROJECT_SUBDIRS of the
\* first subdirectory that holds the name, 0 when none does
FoundIn(project, filename) ==
    LET hits == {k \in 1..Len(PROJECT_SUBDIRS) :
                    filename \in dirs[project][PROJECT_SUBDIRS[k]]}
    IN  IF hits = {} THEN 0 ELSE CHOOSE k \in hits : \A h \in hits : k <= h

\* the names appended to `deleted`: removed, or not found in any subdirectory
DeletedNames(project, culled, fails) ==
    {f \in culled : FoundIn(project, f) = 0 \/ f \notin fails}

\* DELETE /{name}/culled; os.remove raises for the names in fails
delete_culled(project, fails) ==
    IF ~is_valid_project(project)
    THEN /\ last_call' = [op |-> "delete_culled", project |-> project, status |-> 404]
         /\ UNCHANGED <<now, active_jobs, heap, tasks, procs, dirs, metadata, last_import>>
    ELSE LET culled == LoadMetadata(project).culled_files
             found == {f \in culled : FoundIn(project, f) # 0}
             removed == found \ fails
             deleted == DeletedNames(project, culled, fails)
         IN  /\ fails \subseteq found
             /\ dirs' = [dirs EXCEPT ![project] =
                            [d \in Subdirs |->
                                {f \in @[d] :
                                    ~(/\ f \in removed
                                      /\ PROJECT_SUBDIRS[FoundIn(project, f)] = d)}]]
             /\ metadata' = SaveMetadata(project,
                                [LoadMetadata(project) EXCEPT !.culled_files = {}])
             /\ last_call' = [op |-> "delete_culled", project |-> project,
                              status |-> 200, culled |-> culled, fails |-> fails,
                              deleted |-> deleted, errors |-> found \cap fails,
                              total_deleted |-> Cardinality(deleted)]
             /\ UNCHANGED <<now, active_jobs, heap, tasks, procs, last_import>>

InitCull ==
    /\ now = 0
    /\ active_jobs = <<>>
    /\ heap = <<>>
    /\ tasks = <<>>
    /\ procs = {}
    /\ \E library \in CullLibraries : dirs = [p \in JobProjects |-> library]
    /\ metadata = [p \in JobProjects |-> DefaultMetadata]
    /\ last_import = NoImport
    /\ last_call = NoRequest

Cull == \E project \in CullProjects, filename \in CullNames : cull_file(project, filename)

Keep == \E project \in CullProjects, filename \in CullNames : keep_file(project, filename)

DeleteCulled == \E project \in CullProjects, fails \in SUBSET CullNames : delete_culled(project, fails)

NextCull == Cull \/ Keep \/ DeleteCulled

SpecCull == InitCull /\ [][NextCull]_vars

\* DELETE /{name}/culled answers 200 for project p in this step
Deleting(p) ==
    /\ DeleteCulled
    /\ last_call'.op = "delete_culled"
    /\ last_call'.project = p
    /\ last_call'.status = 200

\* C29: after delete_culled returns for a valid project its culled list is
\* empty; every culled file whose removal did not raise is absent from all
\* category subdirectories; total_deleted is the number of culled entries
\* that were removed or were already missing; and no file outside the culled
\* list is removed.
C29_DeleteCulled ==
    [][\A p \in JobProjects :
          Deleting(p) =>
              LET culled == metadata[p].culled_files
                  missing == {f \in culled : \A d \in Subdirs : f \notin dirs[p][d]}
                  gone == {f \in culled :
                              \E d \in Subdirs : f \in dirs[p][d] /\ f \notin dirs'[p][d]}
              IN  /\ metadata'[p].culled_files = {}
                  /\ \A f \in culled \ last_call'.errors :
                         \A d \in Subdirs : f \notin dirs'[p][d]
                  /\ last_call'.total_deleted = Cardinality(gone \cup missing)
                  /\ \A d \in Subdirs : \A f \in dirs[p][d] \ culled :
                         f \in dirs'[p][d]]_vars

\* a culled file was removed from JPEG and its copy in Other is still there
C29_CopyLeft ==
    /\ last_call.op = "delete_culled"
    /\ last_call.status = 200
    /\ CullJpg \in last_call.deleted
    /\ CullJpg \notin dirs["p1"]["JPEG"]
    /\ CullJpg \in dirs["p1"]["Other"]
    /\ metadata["p1"].culled_files = {}

\* the entries of placed before position k that went to the category subdir
PlacedBefore(placed, k, subdir) == {j \in 1..(k - 1) : placed[j].subdir = subdir}

\* C30: in /import-v2 the sequence counter of a category advances only with
\* the files placed in it: every placed file was offered the category's
\* starting number plus the number of files placed in the category before it,
\* whatever failed in between, a failed file is not placed, and the imported
\* count of a category is the number of files placed in it.
C30_CounterOnlyOnSuccess ==
    (last_import.status = 200 /\ last_import.endpoint = "import-v2") =>
        LET placed == last_import.placed
            failed == {last_import.errors[k].file : k \in 1..Len(last_import.errors)}
        IN  /\ \A k \in 1..Len(placed) :
                   placed[k].number =
                       last_import.start_counters[placed[k].subdir]
                           + Cardinality(PlacedBefore(placed, k, placed[k].subdir))
            /\ \A k \in 1..Len(placed) : placed[k].src \notin failed
            /\ \A d \in Subdirs :
                   last_import.imported[d] =
                       Cardinality({k \in 1..Len(placed) : placed[k].subdir = d})

\* IMG_0001.CR2 was placed as trip_0001.CR2, the copy of bad.CR2 failed, and
\* IMG_0002.NEF was placed as trip_0002.NEF
C30_Witness ==
    /\ last_import.status = 200 /\ last_import.endpoint = "import-v2"
    /\ last_import.source = <<Raw1, BadRaw, Raw2>>
    /\ last_import.request.file_prefix = Trip
    /\ Len(last_import.errors) = 1 /\ last_import.errors[1].file = BadRaw.name
    /\ Len(last_import.placed) = 2
    /\ last_import.placed[1].number = 1
    /\ last_import.placed[2].number = 2
    /\ last_import.placed[2].name = Name(Trip \o <<Format04d(2)>>, ".nef")
    /\ last_import.imported["RAW"] = 2

\* the background task t takes a step
TaskActs(t) == t \in TaskIds /\ tasks'[t] # tasks[t]

\* C33: when two jobs have distinct ids, every step of the background task
\* of one of them (status change, progress callback, completed increment,
\* error append) leaves every field of the record of the other unchanged.
C33_OtherJobUntouched ==
    [][\A t \in TaskIds, u \in TaskIds :
          (tasks[t].job_id # tasks[u].job_id /\ TaskActs(t)) =>
              /\ active_jobs'[tasks[u].job_id] = active_jobs[tasks[u].job_id]
              /\ heap'[active_jobs[tasks[u].job_id]] = heap[active_jobs[tasks[u].job_id]]]_vars

\* two jobs with distinct ids are both being converted and the callbacks of
\* both drivers have written a progress, the GoPro driver an error as well
C33_Witness ==
    \E t \in TaskIds, u \in TaskIds :
        /\ tasks[t].job_id # tasks[u].job_id
        /\ tasks[t].kind = "gopro" /\ tasks[u].kind = "batch"
        /\ tasks[t].pc = "poll" /\ tasks[u].pc = "poll"
        /\ tasks[t].cb # NoCall /\ tasks[u].cb # NoCall
        /\ get_job_status(tasks[t].job_id).progress # get_job_status(tasks[u].job_id).progress
        /\ get_job_status(tasks[t].job_id).errors # <<>>

\* convert_video called the callback of task t in this step
Called(t) ==
    /\ TaskActs(t)
    /\ tasks[t].pc = "poll"
    /\ tasks'[t].cb # NoCall
    /\ tasks'[t].pc = "poll" \/ tasks'[t].result = "ok"

\* a <= x <= b
RBetween(a, x, b) == RLeq(a, x) /\ RLeq(x, b)

\* C34: in a GoPro batch job a callback with sub-progress p for item i sets
\* the job progress to (i + p/100) / total * 100; while item i is being
\* converted the job progress stays within [100*i/total, 100*(i+1)/total];
\* and after item i is finished, with success or failure, it is exactly
\* 100*(i+1)/total.
C34_BatchProgressRescaled ==
    [][\A t \in TaskIds :
          tasks[t].kind = "gopro" =>
              LET i == tasks[t].i
                  total == Len(tasks[t].items)
                  p == tasks'[t].cb
              IN  /\ Called(t) =>
                         heap'[tasks[t].job].progress
                             = R(100 * i * p[2] + p[1], p[2] * total)
                  /\ tasks'[t].pc = "poll" =>
                         RBetween(R(100 * i, total), heap'[tasks[t].job].progress,
                                  R(100 * (i + 1), total))
                  /\ (TaskActs(t) /\ tasks[t].pc = "ret") =>
                         heap'[tasks[t].job].progress = R(100 * (i + 1), total)]_vars

\* C36: when the status of a batch job is completed, completed + len(errors)
\* = total: every work item is accounted for exactly once, as completed or
\* as one error record.
C36_EveryItemAccounted ==
    \A id \in JobIds :
        LET job == get_job_status(id) IN
        (IsBatchRecord(job) /\ job.status = "completed")
            => job.completed + Len(job.errors) = job.total

\* C37: whenever the status of a job is completed its progress is 100, for
\* GoPro batch jobs, legacy batch jobs and single conversions.
C37_CompletedMeansFull ==
    \A id \in JobIds :
        get_job_status(id).status = "completed"
            => get_job_status(id).progress = R(FinalProgress, 1)

\* task t starts a transcoder for its current item in this step
Spawns(t) == TaskActs(t) /\ tasks[t].pc = "loop" /\ tasks'[t].pc = "poll"

\* the legacy driver counts the current item of task t as already converted
Skips(t) ==
    /\ TaskActs(t) /\ tasks[t].kind = "batch"
    /\ tasks[t].pc = "loop" /\ tasks'[t].pc = "loop"

\* C40: the legacy batch driver never starts the transcoder with an output
\* path equal to its input path, and it counts a file as already converted
\* only if an output of that file, another file than the file itself, exists
\* in the Video directory.
C40_NeverOntoItself ==
    [][\A t \in TaskIds :
          LET input == tasks[t].items[tasks[t].i + 1] IN
          /\ (tasks[t].kind = "batch" /\ Spawns(t)) => OutputName(tasks[t]) # input
          /\ Skips(t) =>
                 /\ OutputName(tasks[t]) # input
                 /\ OutputName(tasks[t]) \in dirs[tasks[t].project]["Video"]]_vars

\* the sum of the per-category imported counts of a response
ImportedTotal(call) == SumOver(call.imported, Subdirs)

\* the visible source files an /import-v2 call skips as already converted
MarkerSkipped(call) ==
    {k \in Visible(call.source) :
        call.endpoint = "import-v2" /\ HasDnxhdMarker(call.source[k].name.stem)}

\* C38: an import call accounts for every non-hidden source file exactly
\* once, as skipped (marker or date filter), queued for conversion, counted
\* as imported or recorded in errors; in /import and in /import-v2 no file
\* whose copy failed is counted as imported, so the imported counts add up to
\* the number of files placed in the project.
C38_EveryFileAccounted ==
    last_import.status = 200 =>
        /\ Cardinality(Visible(last_import.source))
               = Cardinality(MarkerSkipped(last_import)) + last_import.skipped_by_date
                 + last_import.gopro_queued + ImportedTotal(last_import)
                 + Len(last_import.errors)
        /\ ImportedTotal(last_import) = Len(last_import.placed)
        /\ FileNames(last_import.errors) \cap SrcNames(last_import.placed) = {}

\* the entries of a sequence of records whose field src or file is a name
\* of the set
RECURSIVE Only(_, _, _)
Only(seq, field, names) ==
    IF seq = <<>> THEN <<>>
    ELSE (IF Head(seq)[field] \in names THEN <<Head(seq)>> ELSE <<>>)
             \o Only(Tail(seq), field, names)

\* C35: in /import-v2 the date filter applies to image files only.  An image
\* that reaches the filter is skipped if and only if the filter set is not
\* empty, its date bucket could be determined and the bucket is not in the
\* set; a skipped file is not copied (it is in the project afterwards only if
\* it was there before), not queued, not recorded in errors and uses up no
\* sequence number; and the files of the video and other categories are
\* processed as if no filter were set.
C35_DateFilterImagesOnly ==
    [][ImportedV2 =>
          LET call == last_import'
              req == call.request
              source == call.source
              walked == {k \in 1..Len(source) : Walked(source[k])}
              skipped == IF req.selected_dates = {} THEN {}
                         ELSE RemovedByDate(source, req.selected_dates)
              others == {source[k].name : k \in {j \in walked : ~IsImage(source[j])}}
              plain == WalkV2(WalkStart(req, ProjectDirs(req.project_name)), source,
                              [req EXCEPT !.selected_dates = {}])
              handled == SrcNames(call.placed) \cup FileNames(call.errors)
          IN  /\ call.skipped_by_date = Cardinality(skipped)
              /\ \A k \in walked :
                     IsImage(source[k]) => (source[k].name \in handled <=> k \notin skipped)
              /\ \A k \in skipped :
                     \A d \in Subdirs :
                         source[k].name \in dirs'[req.project_name][d]
                             => source[k].name \in ProjectDirs(req.project_name)[d]
              /\ \A k \in 1..Len(call.placed) :
                     call.placed[k].number =
                         call.start_counters[call.placed[k].subdir]
                             + Cardinality(PlacedBefore(call.placed, k, call.placed[k].subdir))
              /\ Only(call.placed, "src", others) = Only(plain.placed, "src", others)
              /\ Only(call.errors, "file", others) = Only(plain.errors, "file", others)
              /\ call.gopro_queued = Len(plain.gopro_files)
              /\ \A d \in {"Video", "Other"} : dirs'[req.project_name][d] = plain.files[d]]_vars

\* with the filter {2024-01-15} and the prefix trip, IMG_0002.NEF of the 16th
\* was skipped, nodate.CR2 was placed as trip_0001.cr2 and the video as well
C35_Witness ==
    /\ last_import.status = 200 /\ last_import.endpoint = "import-v2"
    /\ last_import.request.selected_dates = {"2024-01-15"}
    /\ last_import.request.file_prefix = Trip
    /\ last_import.source = <<Raw2, NoDateRaw, Clip>>
    /\ last_import.skipped_by_date = 1
    /\ Raw2.name \notin SrcNames(last_import.placed) \cup FileNames(last_import.errors)
    /\ \E k \in 1..Len(last_import.placed) :
          /\ last_import.placed[k].src = NoDateRaw.name
          /\ last_import.placed[k].name = Name(Trip \o <<Format04d(1)>>, ".cr2")
    /\ Clip.name \in SrcNames(last_import.placed)

\* ------------------------------------- imports while GoPro jobs are queued
\* a source with one GoPro clip, and one with a video that is copied
RaceTrees == {<<GH1>>, <<Clip>>}

\* POST /import-v2 with convert_gopro, with and without a prefix
ImportRace ==
    /\ Accepting
    /\ \E project \in JobProjects, tree \in RaceTrees, prefix \in ImportPrefixes :
         /\ FileCount(project) + Len(tree) <= MaxFiles
         /\ import_files_v2(ImportRequestV2(project, prefix, TRUE, "dnxhd_1080p",
                                            FALSE, {}), TRUE, tree)

NextRace ==
    \/ Tick \/ ImportRace \/ GoProStart \/ BeginItem \/ ProcExit \/ Reap
    \/ PostItem \/ Finish

SpecRace == Init /\ [][NextRace]_vars

\* C31: a GoPro conversion job never directs the transcoder to an output
\* path that already exists in the Video directory of the project, with or
\* without a prefix.
C31_OutputPathIsFree ==
    [][\A t \in TaskIds :
          (tasks[t].kind = "gopro" /\ Spawns(t))
              => OutputName(tasks[t]) \notin dirs[tasks[t].project]["Video"]]_vars

\* the GoPro tasks for the project and the prefix that have not finished
PendingGoPro(project, prefix) ==
    {t \in TaskIds :
        /\ tasks[t].kind = "gopro" /\ tasks[t].pc # "done"
        /\ tasks[t].project = project /\ tasks[t].file_prefix = prefix}

\* C32: the Video numbers a GoPro job will use, from its start counter on,
\* are not assigned by another /import-v2 call with the same prefix into the
\* same project while the job has not written its outputs, and no two files
\* of the Video category carry the same <prefix>_<number>.
C32_NumbersNotReused ==
    [][/\ ImportedV2 =>
              LET call == last_import'
                  req == call.request
              IN  req.file_prefix # <<>> =>
                      \A t \in PendingGoPro(req.project_name, req.file_prefix) :
                          \A k \in 1..Len(call.placed) :
                              call.placed[k].subdir = "Video"
                                  => call.placed[k].number < tasks[t].counter
       /\ \A project \in DOMAIN dirs' :
              \A a \in dirs'[project]["Video"], b \in dirs'[project]["Video"] :
                  (a # b /\ NamedPrefixDigits(a, Trip) /\ NamedPrefixDigits(b, Trip)) => a.stem # b.stem]_vars

\* ------------------------------------ transcoders that write to their pipes
\* POST /convert for an input that exists, with an output directory
ConvertPipe ==
    /\ Accepting
    /\ \E preset \in ConvertPresets : convert_single(ClipName, TRUE, TRUE, preset)

BeginItemWriting == \E t \in TaskIds : begin_item_writing(t, DiagnosticOutputs)
ChildWrite == \E p \in procs : child_write(p)

PipeTaskStep == BeginItemWriting \/ Poll \/ Reap \/ SetStatus \/ SetResult

NextPipe == Tick \/ ConvertPipe \/ PipeTaskStep \/ ChildWrite \/ ProcExit

SpecPipe == Init /\ [][NextPipe]_vars

\* background threads are scheduled fairly, a child that can write does, and
\* a child that has written all its output exits
FairSpecPipe ==
    SpecPipe /\ WF_vars(PipeTaskStep) /\ WF_vars(ChildWrite) /\ WF_vars(ProcExit)

\* C39: the polling loop of convert_video terminates for every transcoder
\* run, however much the child writes to its stdout and stderr pipes.
C39_PollingLoopTerminates ==
    \A t \in 1..MaxJobs :
        (t \in TaskIds /\ tasks[t].pc = "poll") ~> (t \in TaskIds /\ tasks[t].pc # "poll")

====
